---- MODULE Spec2Model ----
\* Verification model of the kin-code agent core: conversation history repair
\* (core/conversation_history.py), the middleware pipeline (core/middleware.py),
\* the tool runner (core/tool_runner.py) and the agent loop (core/agent_loop.py).
EXTENDS Integers, Sequences, FiniteSets, TLC

\* ------------------------------------------------------------------ bounds
\* top-level operations (act, compact, clear_history, switch_agent, reload) per run
MaxOps == 3
\* LLM turns over the whole run
MaxLLM == 3
\* tool calls the model may request over the whole run
MaxCalls == 2
\* tool calls carried by one assistant message
MaxPerMsg == 2
\* ToolStreamEvents one invocation may yield
MaxStream == 1
\* messages after the system message in an arbitrary history given to clean()
MaxHist == 4
\* middlewares registered in a pipeline under test
NumMw == 3
\* middlewares registered in the pipeline of the agent loop
LoopPipeline == 2
\* answers of the environment (LLM, tools, callbacks, middlewares) that leave
\* the nominal path: text content, valid calls, CONTINUE, approved, success
MaxDeviations == 2
\* the largest max_turns a TurnLimitMiddleware is given
MaxTurnLimit == 4
\* compactions during one act
MaxCompactions == 2
\* assistant messages with tool calls handed to the runner in the counter study
MaxStatMsgs == 2
MaxChunks == 6
MaxSessions == 2
MaxSessionTokens == 24
MaxChildEvents == 3
MaxPieces == 2
MaxExtractions == 2
MaxUuid == 1
MaxTries == 4
MaxCallbackOps == 4
MaxActs == 3
MaxItems == 2
MaxGenTries == 3

\* ------------------------------------------------------------------ state
VARIABLES
    messages,       \* AgentLoop.messages
    nextMid,        \* next fresh message_id
    nextCid,        \* next fresh tool call id
    hasObserver,    \* AgentLoop.message_observer is installed
    enableStreaming, \* AgentLoop.enable_streaming
    observed,       \* message ids the observer has received, in order
    lastObserved,   \* AgentLoop._last_observed_message_index
    events,         \* events yielded by the current (or last) act
    pc,             \* position of the act coroutine
    resolvedCalls,  \* ResolvedMessage.tool_calls being handled
    failedCalls,    \* ResolvedMessage.failed_calls being handled
    ridx,           \* index of the call the runner is at
    streamed,       \* ToolStreamEvents yielded by the running invocation
    userCancelled,  \* user_cancelled of _conversation_loop
    lastEnd,        \* how the last top-level operation ended
    saved,          \* message ids written by the last _save_session
    agent,          \* active agent profile name
    reloaded,       \* reload_with_initial_messages has run
    pending,        \* content of the tool message the runner appends next
    cleanIn,        \* history handed to the last clean()
    cleanOut,       \* history as the last clean() left it
    cleanCtx,       \* what preceded the last clean(): lastEnd, or "compact"
    opsDone,        \* top-level operations started
    llmTotal,       \* LLM turns performed
    devs,           \* non-nominal answers of the environment so far
    hIn,            \* clean() study: the arbitrary history
    hOnce,          \* clean() study: after one clean()
    hTwice,         \* clean() study: after two
    hpc,            \* clean() study: position
    mwAnswers,      \* pipeline study: before_turn answer of each middleware
    mwResult,       \* pipeline study: what run_before_turn returned
    mwInvoked,      \* pipeline study: how many middlewares were invoked
    mwRaised,       \* pipeline study: run_after_turn raised ValueError
    mwpc,           \* pipeline study: position
    tlMax,          \* turn limit study: TurnLimitMiddleware.max_turns
    tlSteps,        \* turn limit study: stats.steps
    tlTurns,        \* turn limit study: LLM turns performed by the act
    tlCompactions,  \* turn limit study: compactions during the act
    tlAllTools,     \* turn limit study: every turn so far ended in tool messages
    tlEnd,          \* turn limit study: how the act ended, and the stop reason
    tlActs,         \* turn limit study: acts started
    tlpc,           \* turn limit study: position of the act coroutine
    dcIn,           \* decision study: what _should_execute finds
    dcOut,          \* decision study: the decision, or that it raised
    dcpc,           \* decision study: position
    rsStats,        \* counter study: stats.tool_calls_agreed, _rejected, _failed, _succeeded
    rsSeen,         \* counter study: ToolResultEvents emitted so far, by kind
    rsFailedLeft,   \* counter study: failed_calls still to answer
    rsCallsLeft,    \* counter study: resolved tool_calls still to handle
    rsMsgs,         \* counter study: assistant messages handed to the runner
    rspc,           \* counter study: position of the runner
    mtMsgs,         \* compact/clear study: AgentLoop.messages
    mtStats,        \* compact/clear study: AgentLoop.stats
    mtSession,      \* compact/clear study: session id of the loop, the logger, the LLM client
    mtFresh,        \* compact/clear study: next value uuid4 returns
    mtReset,        \* compact/clear study: last reset reason each middleware received
    mtWarned,       \* compact/clear study: ContextWarningMiddleware.has_warned
    mtConfig,       \* compact/clear study: prices and context window the configuration resolves to
    mtBefore,       \* compact/clear study: messages[0] and session id when the operation began
    mtSummary,      \* compact/clear study: content of the summary the LLM returned
    mtEnd,          \* compact/clear study: how the operation ended
    mtInjected,     \* compact/clear study: warnings injected since the last reset(STOP)
    stLeft,         \* chunks the backend may still yield
    stContent,      \* content_buffer, as its pieces
    stReasoning,    \* reasoning_buffer, as its pieces
    stNC,           \* chunks_with_content
    stNR,           \* chunks_with_reasoning
    stAgg,          \* chunk_agg.message
    stEvents,       \* events yielded by _stream_assistant_events
    stAppended,     \* messages appended by the turn, each with the number of events before it
    stpc,           \* position in _stream_assistant_events
    tkHasManager,   \* Task study: ctx and ctx.agent_manager are present
    tkAgent,        \* Task study: args.agent
    tkpc,           \* Task study: position in the parent's runner and Task.run
    tkLoops,        \* Task study: agent types of the AgentLoops constructed by Task.run
    tkOut,          \* Task study: items yielded by Task.run
    tkAcc,          \* Task study: state.accumulated_response
    tkCompleted,    \* Task study: state.completed
    tkChild,        \* Task study: the subagent loop's messages and stats
    tkParent,       \* Task study: the parent loop's messages and stats
    tkParent0,      \* Task study: the parent loop when the Task call began
    psMsg,          \* extraction study: the assistant message
    psMode,         \* extraction study: the mode given to get_tool_call_extractor
    psUuid,         \* extraction study: the uuid4 values the last extraction drew
    psRuns,         \* extraction study: the results of the extractions so far
    rtTries,        \* retry study: tries
    rtAttempt,      \* retry study: attempt, the loop variable of the wrapper
    rtLog,          \* retry study: how each invocation of the wrapped function ended
    rtSlept,        \* retry study: time slept so far, in units of 0.05 s
    rtpc,           \* retry study: position in the wrapper
    rtEnd,          \* retry study: what the wrapper returned or raised
    cbRunner,       \* callback study: approval_callback of the loop's ToolRunner
    cbInstalled,    \* callback study: the callback last given to set_approval_callback
    cbAuto,         \* callback study: config.auto_approve
    cbAgent,        \* callback study: active agent profile name
    cbLast,         \* callback study: the last decision of act's runner for an ASK tool
    cbOps,          \* callback study: operations performed
    grTries,        \* generator retry study: tries
    grAttempt,      \* generator retry study: attempt of the for loop
    grPos,          \* generator retry study: items the running attempt has yielded
    grOut,          \* generator retry study: items the consumer has received
    grpc,           \* generator retry study: position of the wrapper
    grEnd           \* generator retry study: the error raised to the consumer

loopVars == <<messages, nextMid, nextCid, hasObserver, enableStreaming, observed, lastObserved,
              events, pc, resolvedCalls, failedCalls, ridx, streamed,
              userCancelled, lastEnd, saved, agent, reloaded, pending,
              cleanIn, cleanOut, cleanCtx, opsDone, llmTotal, devs>>
histVars == <<hIn, hOnce, hTwice, hpc>>
pipeVars == <<mwAnswers, mwResult, mwInvoked, mwRaised, mwpc>>
limitVars == <<tlMax, tlSteps, tlTurns, tlCompactions, tlAllTools, tlEnd, tlActs, tlpc>>
decVars == <<dcIn, dcOut, dcpc>>
statVars == <<rsStats, rsSeen, rsFailedLeft, rsCallsLeft, rsMsgs, rspc>>
maintVars == <<mtMsgs, mtStats, mtSession, mtFresh, mtReset, mtWarned, mtConfig, mtBefore, mtSummary, mtEnd, mtInjected>>
streamVars == <<stLeft, stContent, stReasoning, stNC, stNR, stAgg, stEvents, stAppended, stpc>>
taskVars == <<tkHasManager, tkAgent, tkpc, tkLoops, tkOut, tkAcc, tkCompleted, tkChild, tkParent, tkParent0>>
parseVars == <<psMsg, psMode, psUuid, psRuns>>
retryVars == <<rtTries, rtAttempt, rtLog, rtSlept, rtpc, rtEnd>>
cbVars == <<cbRunner, cbInstalled, cbAuto, cbAgent, cbLast, cbOps>>
genVars == <<grTries, grAttempt, grPos, grOut, grpc, grEnd>>
vars == <<loopVars, histVars, pipeVars, limitVars, decVars, statVars, maintVars, streamVars, taskVars, parseVars, retryVars, cbVars, genVars>>
\* what each study leaves alone
histFrame == <<loopVars, pipeVars, limitVars, decVars, statVars, maintVars, streamVars, taskVars, parseVars, retryVars, cbVars, genVars>>
pipeFrame == <<loopVars, histVars, limitVars, decVars, statVars, maintVars, streamVars, taskVars, parseVars, retryVars, cbVars, genVars>>
limitFrame == <<loopVars, histVars, pipeVars, decVars, statVars, maintVars, streamVars, taskVars, parseVars, retryVars, cbVars, genVars>>
decFrame == <<loopVars, histVars, pipeVars, limitVars, statVars, maintVars, streamVars, taskVars, parseVars, retryVars, cbVars, genVars>>
statFrame == <<loopVars, histVars, pipeVars, limitVars, decVars, maintVars, streamVars, taskVars, parseVars, retryVars, cbVars, genVars>>
maintFrame == <<loopVars, histVars, pipeVars, limitVars, decVars, statVars, streamVars, taskVars, parseVars, retryVars, cbVars, genVars>>
streamFrame == <<loopVars, histVars, pipeVars, limitVars, decVars, statVars, maintVars, taskVars, parseVars, retryVars, cbVars, genVars>>
taskFrame == <<loopVars, histVars, pipeVars, limitVars, decVars, statVars, maintVars, streamVars, parseVars, retryVars, cbVars, genVars>>
parseFrame == <<loopVars, histVars, pipeVars, limitVars, decVars, statVars, maintVars, streamVars, taskVars, retryVars, cbVars, genVars>>
retryFrame == <<loopVars, histVars, pipeVars, limitVars, decVars, statVars, maintVars, streamVars, taskVars, parseVars, cbVars, genVars>>
cbFrame == <<loopVars, histVars, pipeVars, limitVars, decVars, statVars, maintVars, streamVars, taskVars, parseVars, retryVars, genVars>>
genFrame == <<loopVars, histVars, pipeVars, limitVars, decVars, statVars, maintVars, streamVars, taskVars, parseVars, retryVars, cbVars>>

\* ------------------------------------------------------------------ messages
\* LLMMessage: message_id, role, content (a list of text tokens), tool_calls
\* (the ids of its ToolCalls, in order) and tool_call_id (0 when absent).
Msg(mid, role, content, calls, cid) ==
    [mid |-> mid, role |-> role, content |-> content, calls |-> calls, cid |-> cid]

SystemMsg(mid) == Msg(mid, "system", <<"sys">>, <<>>, 0)
UserMsg(mid, content) == Msg(mid, "user", content, <<>>, 0)
ToolMsg(mid, cid, content) == Msg(mid, "tool", content, <<>>, cid)

Mids(msgs) == [i \in 1..Len(msgs) |-> msgs[i].mid]

\* get_user_cancellation_message(TOOL_NO_RESPONSE), as content tokens
NoResponseText == <<"<user_cancellation>", "no response">>
\* get_user_cancellation_message(TOOL_INTERRUPTED)
InterruptedText == <<"<user_cancellation>", "interrupted">>
\* get_user_cancellation_message(TOOL_SKIPPED, tool_name)
SkippedText == <<"<user_cancellation>", "skipped">>

\* ------------------------------------------------------------------ history
\* ConversationHistory.count_tool_responses; indices are 1-based here
RECURSIVE CountToolResponses(_, _)
CountToolResponses(msgs, start) ==
    IF start <= Len(msgs) /\ msgs[start].role = "tool"
    THEN 1 + CountToolResponses(msgs, start + 1)
    ELSE 0

CreateMissingResponse(cid, mid) == ToolMsg(mid, cid, NoResponseText)

\* the while loop of fill_missing_tool_responses from position i on; mid is
\* the id the next created message gets
RECURSIVE FillFrom(_, _, _)
FillFrom(msgs, i, mid) ==
    IF i > Len(msgs) THEN msgs
    ELSE IF msgs[i].role # "assistant" \/ msgs[i].calls = <<>>
    THEN FillFrom(msgs, i + 1, mid)
    ELSE LET expected == Len(msgs[i].calls)
             actual == CountToolResponses(msgs, i + 1)
         IN IF actual < expected
            THEN LET ins == [j \in 1..(expected - actual) |->
                               CreateMissingResponse(msgs[i].calls[actual + j],
                                                     mid + j - 1)]
                     new == SubSeq(msgs, 1, i + actual) \o ins
                            \o SubSeq(msgs, i + actual + 1, Len(msgs))
                 IN FillFrom(new, i + 1 + expected, mid + expected - actual)
            ELSE FillFrom(msgs, i + 1 + expected, mid)

FillMissingToolResponses(msgs, mid) == FillFrom(msgs, 2, mid)

EnsureAssistantAlways(msgs, mid) ==
    IF Len(msgs) < 2 THEN msgs
    ELSE IF msgs[Len(msgs)].role # "user"
    THEN Append(msgs, Msg(mid, "assistant", <<"Understood.">>, <<>>, 0))
    ELSE msgs

EnsureAssistantNever(msgs, mid) == msgs

EnsureAssistantAfterTools(msgs, mid) ==
    IF Len(msgs) < 2 THEN msgs
    ELSE IF msgs[Len(msgs)].role = "tool"
    THEN Append(msgs, Msg(mid, "assistant", <<"Understood.">>, <<>>, 0))
    ELSE msgs

\* ConversationHistory.clean
Clean(msgs, mid) ==
    IF Len(msgs) < 2 THEN msgs
    ELSE LET filled == FillMissingToolResponses(msgs, mid)
         IN EnsureAssistantAfterTools(filled, mid + Len(filled) - Len(msgs))

ReplaceSystemMessageKeepAll(msgs, mid) == <<SystemMsg(mid)>> \o msgs

\* ConversationHistory.replace_system_message
ReplaceSystemMessage(msgs, mid) ==
    <<SystemMsg(mid)>> \o SelectSeq(msgs, LAMBDA m : m.role # "system")

\* ------------------------------------------------------------------ middleware
\* MiddlewareResult: action, message (text tokens, <<>> when None or empty)
\* and reason (0 when None)
MwResult(action, message, reason) ==
    [action |-> action, message |-> message, reason |-> reason]

Continue == MwResult("CONTINUE", <<>>, 0)

\* "\n\n".join(list of texts)
RECURSIVE JoinBlank(_)
JoinBlank(texts) ==
    IF texts = <<>> THEN <<>>
    ELSE IF Len(texts) = 1 THEN texts[1]
    ELSE texts[1] \o <<"\n\n">> \o JoinBlank(Tail(texts))

\* the for loop of run_before_turn from middleware i on; answers[i] is what
\* middleware i returns from before_turn
RECURSIVE BeforeFrom(_, _, _)
BeforeFrom(answers, i, inject) ==
    IF i > Len(answers)
    THEN [result |-> IF inject # <<>>
                     THEN MwResult("INJECT_MESSAGE", JoinBlank(inject), 0)
                     ELSE Continue,
          invoked |-> Len(answers)]
    ELSE IF answers[i].action = "INJECT_MESSAGE" /\ answers[i].message # <<>>
    THEN BeforeFrom(answers, i + 1, Append(inject, answers[i].message))
    ELSE IF answers[i].action \in {"STOP", "COMPACT"}
    THEN [result |-> answers[i], invoked |-> i]
    ELSE BeforeFrom(answers, i + 1, inject)

RECURSIVE BeforeFromFirstWins(_, _, _)
BeforeFromFirstWins(answers, i, inject) ==
    IF i > Len(answers)
    THEN [result |-> IF inject # <<>>
                     THEN MwResult("INJECT_MESSAGE", JoinBlank(inject), 0)
                     ELSE Continue,
          invoked |-> Len(answers)]
    ELSE IF answers[i].action = "INJECT_MESSAGE" /\ answers[i].message # <<>>
    THEN [result |-> MwResult("INJECT_MESSAGE", answers[i].message, 0),
          invoked |-> i]
    ELSE IF answers[i].action \in {"STOP", "COMPACT"}
    THEN [result |-> answers[i], invoked |-> i]
    ELSE BeforeFromFirstWins(answers, i + 1, inject)

RunBeforeTurnFirstWins(answers) == BeforeFromFirstWins(answers, 1, <<>>)

\* MiddlewarePipeline.run_before_turn
RunBeforeTurn(answers) == BeforeFrom(answers, 1, <<>>)

\* the for loop of run_after_turn from middleware i on; answers[i] is what
\* middleware i returns from after_turn; raised is TRUE for the ValueError
\* (no result is returned then)
RECURSIVE AfterFrom(_, _)
AfterFrom(answers, i) ==
    IF i > Len(answers)
    THEN [raised |-> FALSE, result |-> Continue, invoked |-> Len(answers)]
    ELSE IF answers[i].action = "INJECT_MESSAGE"
    THEN [raised |-> TRUE, result |-> Continue, invoked |-> i]
    ELSE IF answers[i].action \in {"STOP", "COMPACT"}
    THEN [raised |-> FALSE, result |-> answers[i], invoked |-> i]
    ELSE AfterFrom(answers, i + 1)

\* run_after_turn handling INJECT_MESSAGE the way run_before_turn does
RunAfterTurnAllowsInject(answers) ==
    [raised |-> FALSE, result |-> BeforeFrom(answers, 1, <<>>).result,
     invoked |-> BeforeFrom(answers, 1, <<>>).invoked]

RunAfterTurn(answers) == AfterFrom(answers, 1)

\* answers a middleware under test may give
StudyAnswers ==
    {Continue, MwResult("COMPACT", <<>>, 0),
     MwResult("STOP", <<>>, 1), MwResult("STOP", <<>>, 2),
     MwResult("INJECT_MESSAGE", <<>>, 0),
     MwResult("INJECT_MESSAGE", <<"a">>, 0),
     MwResult("INJECT_MESSAGE", <<"b">>, 0)}

\* answers the middlewares of the agent loop give
LoopAnswers ==
    {Continue, MwResult("COMPACT", <<>>, 0), MwResult("STOP", <<>>, 1),
     MwResult("INJECT_MESSAGE", <<"reminder">>, 0)}

\* ------------------------------------------------------------------ events
\* BaseEvent: its type, the tool_call_id it carries (0 when none) and a tag:
\* for tool_result "ok", "error", "skipped", "skipped_cancel" or "cancel",
\* for assistant "text" or "stop"
Ev(type, cid, tag) == [type |-> type, cid |-> cid, tag |-> tag]

UserMessageEvent == Ev("user", 0, "")
AssistantEvent == Ev("assistant", 0, "text")
StopEvent == Ev("assistant", 0, "stop")
ToolCallEvent(cid) == Ev("tool_call", cid, "")
ToolStreamEvent(cid) == Ev("tool_stream", cid, "")
ToolResultEvent(cid, tag) == Ev("tool_result", cid, tag)
CompactStartEvent == Ev("compact_start", 0, "")
CompactEndEvent == Ev("compact_end", 0, "")

\* the tag constants kin_code.core.utils binds at module level
UtilsTagNames ==
    {"CANCELLATION_TAG", "TOOL_ERROR_TAG", "KIN_STOP_EVENT_TAG", "KIN_WARNING_TAG"}

\* the name agent_loop imports from kin_code.core.utils and wraps the stop
\* reason in
StopEventTagName == "VIBE_STOP_EVENT_TAG"

\* the import of the stop-event tag finds a binding
StopEventTagBound == StopEventTagName \in UtilsTagNames

\* is_user_cancellation_event
IsUserCancellationEvent(e) == e.type = "tool_result" /\ e.tag = "skipped_cancel"

ErrorText == <<"<tool_error>", "error">>
FeedbackText == <<"feedback">>
ResultText == <<"result">>

\* ------------------------------------------------------------------ agent loop
\* AgentLoop._flush_new_messages: the observer's log and the index afterwards
FlushNewMessages(msgs, obs, idx, has) ==
    IF ~has \/ idx >= Len(msgs)
    THEN [obs |-> obs, idx |-> idx]
    ELSE [obs |-> obs \o Mids(SubSeq(msgs, idx + 1, Len(msgs))),
          idx |-> Len(msgs)]

\* resolve_tool_calls: the parsed calls that validate, and the ones that do
\* not, each in parsed order; kinds[i] says whether call i validates
ResolveToolCalls(calls, kinds) ==
    LET idx == 1..Len(calls)
        pick(k) == SelectSeq([i \in idx |-> <<calls[i], kinds[i]>>],
                             LAMBDA p : p[2] = k)
    IN [tool_calls |-> [i \in 1..Len(pick("ok")) |-> pick("ok")[i][1]],
        failed_calls |-> [i \in 1..Len(pick("bad")) |-> pick("bad")[i][1]]]

\* AgentStats(): every counter at its default
FreshStats ==
    [steps |-> 0, sessionTokens |-> 0, contextTokens |-> 0, toolCalls |-> 0,
     inputPrice |-> 0, outputPrice |-> 0, maxContext |-> 0]

\* the body of compact() on history msgs, creating messages from id mid on;
\* outcome is "ok", "chat_fail" (the summary call raises) or "count_fail"
\* (count_tokens raises)
CompactBody(msgs, mid, outcome) ==
    LET cleaned == Clean(msgs, mid)
        n == mid + Len(cleaned) - Len(msgs)
        prompt == UserMsg(n, <<"compact prompt">>)
        summary == UserMsg(n + 1, <<"summary">>)
    IN IF outcome = "chat_fail"
       THEN [messages |-> Append(cleaned, prompt), cleaned |-> cleaned,
             nextMid |-> n + 1, ok |-> FALSE]
       ELSE [messages |-> <<cleaned[1], summary>>, cleaned |-> cleaned,
             nextMid |-> n + 2, ok |-> outcome = "ok"]

CompactOutcomes == {"ok", "chat_fail", "count_fail"}

\* a variant that delivers the injected text as a message of its own (a
\* copy of the last one with the text as content)
InjectAsNewMessage(msgs, text) ==
    IF text = <<>> \/ Len(msgs) = 0 THEN msgs
    ELSE Append(msgs, [msgs[Len(msgs)] EXCEPT !.content = text])

\* last_msg.content += "\n\n" + message, or = message when it was empty
InjectInto(msgs, text) ==
    IF text = <<>> \/ Len(msgs) = 0 THEN msgs
    ELSE [msgs EXCEPT ![Len(msgs)].content =
            IF @ # <<>> THEN @ \o <<"\n\n">> \o text ELSE text]

LoopAnswerVectors == [1..LoopPipeline -> LoopAnswers]

\* the finally clause of _conversation_loop, and the end of act
ActEnd(msgs, obs, idx, kind) ==
    LET f == FlushNewMessages(msgs, obs, idx, hasObserver)
    IN /\ messages' = msgs
       /\ observed' = f.obs
       /\ lastObserved' = f.idx
       /\ saved' = Mids(msgs)
       /\ lastEnd' = kind
       /\ pc' = "idle"

runnerVars == <<resolvedCalls, failedCalls, ridx, streamed, pending>>
cleanVars == <<cleanIn, cleanOut, cleanCtx>>
otherVars == <<enableStreaming, histVars, pipeVars, limitVars, decVars, statVars, maintVars, streamVars, taskVars, parseVars, retryVars, cbVars, genVars>>

LoopInit ==
    /\ hasObserver \in BOOLEAN
    /\ enableStreaming \in BOOLEAN
    /\ messages = <<SystemMsg(0)>>
    /\ nextMid = 1
    /\ nextCid = 1
    /\ observed = IF hasObserver THEN <<0>> ELSE <<>>
    /\ lastObserved = IF hasObserver THEN 1 ELSE 0
    /\ events = <<>>
    /\ pc = "idle"
    /\ resolvedCalls = <<>>
    /\ failedCalls = <<>>
    /\ ridx = 0
    /\ streamed = 0
    /\ pending = <<>>
    /\ userCancelled = FALSE
    /\ lastEnd = "init"
    /\ saved = <<>>
    /\ agent = "default"
    /\ reloaded = FALSE
    /\ cleanIn = <<>>
    /\ cleanOut = <<>>
    /\ cleanCtx = "none"
    /\ opsDone = 0
    /\ llmTotal = 0
    /\ devs = 0

HistParked == hIn = <<>> /\ hOnce = <<>> /\ hTwice = <<>> /\ hpc = "parked"
PipeParked ==
    /\ mwAnswers = <<>> /\ mwResult = Continue /\ mwInvoked = 0
    /\ mwRaised = FALSE /\ mwpc = "parked"
LimitParked ==
    /\ tlMax = 0 /\ tlSteps = 0 /\ tlTurns = 0 /\ tlCompactions = 0
    /\ tlAllTools = TRUE /\ tlEnd = [kind |-> "none", reason |-> 0]
    /\ tlActs = 0
    /\ tlpc = "parked"

DecParked ==
    /\ dcIn = [auto |-> FALSE, listed |-> "none", perm |-> "ASK",
               hasCallback |-> FALSE, response |-> "NO"]
    /\ dcOut = [verdict |-> "none", feedback |-> "none", asked |-> FALSE]
    /\ dcpc = "parked"

StatParked ==
    /\ rsStats = [agreed |-> 0, rejected |-> 0, failed |-> 0, succeeded |-> 0]
    /\ rsSeen = [results |-> 0, skipped |-> 0, toolErrors |-> 0, lookups |-> 0,
                 cancelled |-> 0, unhandled |-> 0]
    /\ rsFailedLeft = 0 /\ rsCallsLeft = 0 /\ rsMsgs = 0
    /\ rspc = "parked"

MaintParked ==
    /\ mtMsgs = <<SystemMsg(0)>>
    /\ mtStats = FreshStats
    /\ mtSession = [loop |-> 0, logger |-> 0, client |-> 0]
    /\ mtFresh = 1
    /\ mtReset = [i \in 1..NumMw |-> "none"]
    /\ mtWarned = FALSE
    /\ mtConfig = [inputPrice |-> 0, outputPrice |-> 0, maxContext |-> 0]
    /\ mtBefore = [system |-> SystemMsg(0), session |-> 0]
    /\ mtSummary = <<>>
    /\ mtEnd = "parked"
    /\ mtInjected = 0

StreamParked ==
    /\ stLeft = 0
    /\ stContent = <<>>
    /\ stReasoning = <<>>
    /\ stNC = 0
    /\ stNR = 0
    /\ stAgg = [content |-> <<>>, reasoning |-> <<>>]
    /\ stEvents = <<>>
    /\ stAppended = <<>>
    /\ stpc = "parked"
TaskParked ==
    /\ tkHasManager = FALSE
    /\ tkAgent = "explore"
    /\ tkpc = "parked"
    /\ tkLoops = <<>>
    /\ tkOut = <<>>
    /\ tkAcc = <<>>
    /\ tkCompleted = TRUE
    /\ tkChild = [messages |-> <<>>, steps |-> 0, tokens |-> 0, toolCalls |-> 0, events |-> 0, raised |-> FALSE, log |-> <<>>]
    /\ tkParent = [messages |-> <<>>, steps |-> 0, tokens |-> 0, agreed |-> 0, succeeded |-> 0, failed |-> 0]
    /\ tkParent0 = tkParent
ParseParked ==
    /\ psMsg = [content |-> <<>>, tool_calls |-> <<>>]
    /\ psMode = "none"
    /\ psUuid = 0
    /\ psRuns = <<>>
RetryParked ==
    /\ rtTries = 0
    /\ rtAttempt = 0
    /\ rtLog = <<>>
    /\ rtSlept = 0
    /\ rtpc = "parked"
    /\ rtEnd = [kind |-> "none", code |-> 0]
CbParked ==
    /\ cbRunner = "none"
    /\ cbInstalled = "none"
    /\ cbAuto = FALSE
    /\ cbAgent = "default"
    /\ cbLast = [installed |-> "none", consulted |-> "none", verdict |-> "none"]
    /\ cbOps = -1
GenParked ==
    /\ grTries = 0
    /\ grAttempt = 0
    /\ grPos = 0
    /\ grOut = <<>>
    /\ grpc = "parked"
    /\ grEnd = [kind |-> "none", code |-> 0]
\* the loop, idle and untouched, while another part is studied
LoopParked ==
    /\ LoopInit
    /\ hasObserver = FALSE
    /\ enableStreaming = FALSE

\* every part but the one under study is parked
ParkedExcept(study) ==
    /\ IF study = "loop" THEN TRUE ELSE LoopParked
    /\ IF study = "hist" THEN TRUE ELSE HistParked
    /\ IF study = "pipe" THEN TRUE ELSE PipeParked
    /\ IF study = "limit" THEN TRUE ELSE LimitParked
    /\ IF study = "decide" THEN TRUE ELSE DecParked
    /\ IF study = "stats" THEN TRUE ELSE StatParked
    /\ IF study = "maint" THEN TRUE ELSE MaintParked
    /\ IF study = "stream" THEN TRUE ELSE StreamParked
    /\ IF study = "task" THEN TRUE ELSE TaskParked
    /\ IF study = "parse" THEN TRUE ELSE ParseParked
    /\ IF study = "retry" THEN TRUE ELSE RetryParked
    /\ IF study = "callback" THEN TRUE ELSE CbParked
    /\ IF study = "genretry" THEN TRUE ELSE GenParked

\* act: clean(), then _conversation_loop up to its first yield
Act ==
    /\ pc = "idle" /\ opsDone < MaxOps /\ llmTotal < MaxLLM
    /\ LET cleaned == Clean(messages, nextMid)
           n == nextMid + Len(cleaned) - Len(messages)
       IN /\ messages' = Append(cleaned, UserMsg(n, <<"user">>))
          /\ nextMid' = n + 1
          /\ cleanIn' = messages
          /\ cleanOut' = cleaned
          /\ cleanCtx' = lastEnd
    /\ events' = <<UserMessageEvent>>
    /\ userCancelled' = FALSE
    /\ pc' = "before_turn"
    /\ lastEnd' = "running"
    /\ opsDone' = opsDone + 1
    /\ UNCHANGED <<nextCid, hasObserver, observed, lastObserved, runnerVars,
                   saved, agent, reloaded, llmTotal, devs, otherVars>>

\* run_before_turn answers CONTINUE
BeforeTurnContinue ==
    /\ pc = "before_turn"
    /\ \E a \in LoopAnswerVectors : RunBeforeTurn(a).result.action = "CONTINUE"
    /\ pc' = "llm"
    /\ UNCHANGED <<messages, nextMid, nextCid, hasObserver, observed,
                   lastObserved, events, runnerVars, userCancelled,
                   lastEnd, saved, agent, reloaded, cleanVars, opsDone,
                   llmTotal, devs, otherVars>>

\* run_before_turn answers INJECT_MESSAGE
BeforeTurnInject ==
    /\ pc = "before_turn"
    /\ devs < MaxDeviations /\ devs' = devs + 1
    /\ \E a \in LoopAnswerVectors :
         /\ RunBeforeTurn(a).result.action = "INJECT_MESSAGE"
         /\ messages' = InjectInto(messages, RunBeforeTurn(a).result.message)
    /\ pc' = "llm"
    /\ UNCHANGED <<nextMid, nextCid, hasObserver, observed,
                   lastObserved, events, runnerVars, userCancelled,
                   lastEnd, saved, agent, reloaded, cleanVars, opsDone,
                   llmTotal, otherVars>>

\* run_before_turn answers STOP: the stop event, then the finally clause
BeforeTurnStop ==
    /\ pc = "before_turn"
    /\ devs < MaxDeviations /\ devs' = devs + 1
    /\ \E a \in LoopAnswerVectors : RunBeforeTurn(a).result.action = "STOP"
    /\ events' = Append(events, StopEvent)
    /\ ActEnd(messages, observed, lastObserved, "stop")
    /\ UNCHANGED <<nextMid, nextCid, hasObserver, runnerVars,
                   userCancelled, agent, reloaded, cleanVars, opsDone,
                   llmTotal, otherVars>>

\* run_before_turn answers COMPACT: CompactStartEvent, compact(), CompactEndEvent
BeforeTurnCompact ==
    /\ pc = "before_turn"
    /\ devs < MaxDeviations /\ devs' = devs + 1
    /\ \E a \in LoopAnswerVectors : RunBeforeTurn(a).result.action = "COMPACT"
    /\ \E o \in CompactOutcomes :
         LET c == CompactBody(messages, nextMid, o)
         IN /\ nextMid' = c.nextMid
            /\ cleanIn' = messages
            /\ cleanOut' = c.cleaned
            /\ cleanCtx' = "compact"
            /\ IF c.ok
               THEN /\ events' = events \o <<CompactStartEvent, CompactEndEvent>>
                    /\ messages' = c.messages
                    /\ saved' = Mids(c.messages)
                    /\ pc' = "llm"
                    /\ UNCHANGED <<observed, lastObserved, lastEnd>>
               ELSE /\ events' = Append(events, CompactStartEvent)
                    /\ ActEnd(c.messages, observed, lastObserved, "exception")
    /\ UNCHANGED <<nextCid, hasObserver, runnerVars, userCancelled, agent,
                   reloaded, opsDone, llmTotal, otherVars>>

\* sequences of call kinds the model may request in one message
KindSeqs == UNION {[1..n -> {"ok", "bad"}] : n \in 0..MaxPerMsg}

\* _perform_llm_turn up to the tool runner: the LLM answers with content
\* (possibly empty), reasoning (streaming only) and the calls of kinds
LLMTurn ==
    /\ pc = "llm"
    /\ \E content \in {<<>>, <<"text">>}, reasoning \in BOOLEAN, kinds \in KindSeqs :
         /\ reasoning => enableStreaming
         /\ devs' = devs + Len(SelectSeq(kinds, LAMBDA k : k = "bad"))
                         + (IF content = <<>> THEN 1 ELSE 0)
                         + (IF reasoning THEN 1 ELSE 0)
         /\ devs' <= MaxDeviations
         /\ Len(kinds) > 0 =>
              llmTotal + 1 < MaxLLM /\ nextCid - 1 + Len(kinds) <= MaxCalls
         /\ LET calls == [i \in 1..Len(kinds) |-> nextCid + i - 1]
                r == ResolveToolCalls(calls, kinds)
            IN /\ messages' = Append(messages,
                                Msg(nextMid, "assistant", content, calls, 0))
               /\ events' = events
                    \o (IF reasoning THEN <<Ev("reasoning", 0, "")>> ELSE <<>>)
                    \o (IF content # <<>> THEN <<AssistantEvent>> ELSE <<>>)
               /\ resolvedCalls' = r.tool_calls
               /\ failedCalls' = r.failed_calls
               /\ nextCid' = nextCid + Len(kinds)
               /\ pc' = IF r.failed_calls # <<>> THEN "failed_yield"
                        ELSE IF r.tool_calls # <<>> THEN "call"
                        ELSE "post_turn"
    /\ ridx' = 1
    /\ nextMid' = nextMid + 1
    /\ llmTotal' = llmTotal + 1
    /\ UNCHANGED <<hasObserver, observed, lastObserved, streamed, pending,
                   userCancelled, lastEnd, saved, agent, reloaded, cleanVars,
                   opsDone, otherVars>>

\* the LLM call raises: the finally clause runs and act ends
LLMFail ==
    /\ pc = "llm"
    /\ devs < MaxDeviations /\ devs' = devs + 1
    /\ ActEnd(messages, observed, lastObserved, "exception")
    /\ UNCHANGED <<nextMid, nextCid, hasObserver, events, runnerVars,
                   userCancelled, agent, reloaded, cleanVars, opsDone,
                   llmTotal, otherVars>>

\* ------------------------------------------------------------------ tool runner
\* handle_tool_calls, failed calls: yield ToolResultEvent
RunnerFailedYield ==
    /\ pc = "failed_yield"
    /\ events' = Append(events, ToolResultEvent(failedCalls[ridx], "error"))
    /\ pc' = "failed_append"
    /\ UNCHANGED <<messages, nextMid, nextCid, hasObserver, observed,
                   lastObserved, runnerVars, userCancelled, lastEnd,
                   saved, agent, reloaded, cleanVars, opsDone, llmTotal,
                   devs, otherVars>>

\* a runner that emits the event of a failed call and appends no message
RunnerFailedAppendForgets ==
    /\ pc = "failed_append"
    /\ IF ridx < Len(failedCalls)
       THEN ridx' = ridx + 1 /\ pc' = "failed_yield"
       ELSE ridx' = 1 /\ pc' = IF resolvedCalls # <<>> THEN "call" ELSE "post_turn"
    /\ UNCHANGED <<messages, nextMid, nextCid, hasObserver, observed,
                   lastObserved, events, resolvedCalls, failedCalls, streamed,
                   pending, userCancelled, lastEnd, saved, agent, reloaded,
                   cleanVars, opsDone, llmTotal, devs, otherVars>>

\* handle_tool_calls, failed calls: history_append_func, next failed call
RunnerFailedAppend ==
    /\ pc = "failed_append"
    /\ messages' = Append(messages, ToolMsg(nextMid, failedCalls[ridx], ErrorText))
    /\ nextMid' = nextMid + 1
    /\ IF ridx < Len(failedCalls)
       THEN ridx' = ridx + 1 /\ pc' = "failed_yield"
       ELSE ridx' = 1 /\ pc' = IF resolvedCalls # <<>> THEN "call" ELSE "post_turn"
    /\ UNCHANGED <<nextCid, hasObserver, observed, lastObserved, events,
                   resolvedCalls, failedCalls, streamed, pending,
                   userCancelled, lastEnd, saved, agent, reloaded, cleanVars,
                   opsDone, llmTotal, devs, otherVars>>

RunnerCallSilent ==
    /\ pc = "call"
    /\ pc' = "decide"
    /\ UNCHANGED <<messages, nextMid, nextCid, hasObserver, observed,
                   lastObserved, events, runnerVars, userCancelled, lastEnd,
                   saved, agent, reloaded, cleanVars, opsDone, llmTotal,
                   devs, otherVars>>

\* handle_tool_calls, resolved call: yield ToolCallEvent
RunnerCall ==
    /\ pc = "call"
    /\ events' = Append(events, ToolCallEvent(resolvedCalls[ridx]))
    /\ pc' = "decide"
    /\ UNCHANGED <<messages, nextMid, nextCid, hasObserver, observed,
                   lastObserved, runnerVars, userCancelled, lastEnd,
                   saved, agent, reloaded, cleanVars, opsDone, llmTotal,
                   devs, otherVars>>

\* tool_manager.get raises: yield ToolResultEvent(error)
RunnerLookupFail ==
    /\ pc = "decide"
    /\ devs < MaxDeviations /\ devs' = devs + 1
    /\ events' = Append(events, ToolResultEvent(resolvedCalls[ridx], "error"))
    /\ pending' = ErrorText
    /\ pc' = "append"
    /\ UNCHANGED <<messages, nextMid, nextCid, hasObserver, observed,
                   lastObserved, resolvedCalls, failedCalls, ridx,
                   streamed, userCancelled, lastEnd, saved, agent, reloaded,
                   cleanVars, opsDone, llmTotal, otherVars>>

\* a variant in which every skip counts as a user cancellation
RunnerSkipAlwaysCancels ==
    /\ pc = "decide"
    /\ devs < MaxDeviations /\ devs' = devs + 1
    /\ \E feedback \in BOOLEAN :
         /\ events' = Append(events, ToolResultEvent(resolvedCalls[ridx],
                         IF feedback THEN "skipped" ELSE "skipped_cancel"))
         /\ pending' = IF feedback THEN FeedbackText ELSE SkippedText
         /\ userCancelled' = TRUE
    /\ pc' = "append"
    /\ UNCHANGED <<messages, nextMid, nextCid, hasObserver, observed,
                   lastObserved, resolvedCalls, failedCalls, ridx,
                   streamed, lastEnd, saved, agent, reloaded, cleanVars,
                   opsDone, llmTotal, otherVars>>

\* _should_execute answers SKIP, with feedback or with the cancellation text:
\* yield ToolResultEvent(skipped); the loop notes a user cancellation event
RunnerSkip ==
    /\ pc = "decide"
    /\ devs < MaxDeviations /\ devs' = devs + 1
    /\ \E feedback \in BOOLEAN :
         /\ events' = Append(events, ToolResultEvent(resolvedCalls[ridx],
                         IF feedback THEN "skipped" ELSE "skipped_cancel"))
         /\ pending' = IF feedback THEN FeedbackText ELSE SkippedText
         /\ userCancelled' = (userCancelled \/ ~feedback)
    /\ pc' = "append"
    /\ UNCHANGED <<messages, nextMid, nextCid, hasObserver, observed,
                   lastObserved, resolvedCalls, failedCalls, ridx,
                   streamed, lastEnd, saved, agent, reloaded, cleanVars,
                   opsDone, llmTotal, otherVars>>

\* _should_execute raises (the approval callback fails, is cancelled, or
\* answers neither YES nor NO): nothing catches it, act ends
RunnerApprovalRaise ==
    /\ pc = "decide"
    /\ devs < MaxDeviations /\ devs' = devs + 1
    /\ \E kind \in {"exception", "cancel_approval"} :
         ActEnd(messages, observed, lastObserved, kind)
    /\ UNCHANGED <<nextMid, nextCid, hasObserver, events, runnerVars,
                   userCancelled, agent, reloaded, cleanVars, opsDone,
                   llmTotal, otherVars>>

\* _should_execute answers EXECUTE: tool_instance.invoke starts
RunnerExecute ==
    /\ pc = "decide"
    /\ streamed' = 0
    /\ pc' = "invoke"
    /\ UNCHANGED <<messages, nextMid, nextCid, hasObserver, observed,
                   lastObserved, events, resolvedCalls, failedCalls,
                   ridx, pending, userCancelled, lastEnd, saved, agent,
                   reloaded, cleanVars, opsDone, llmTotal, devs, otherVars>>

\* invoke yields a ToolStreamEvent, which the runner forwards
InvokeStream ==
    /\ pc = "invoke" /\ streamed < MaxStream
    /\ devs < MaxDeviations /\ devs' = devs + 1
    /\ events' = Append(events, ToolStreamEvent(resolvedCalls[ridx]))
    /\ streamed' = streamed + 1
    /\ UNCHANGED <<messages, nextMid, nextCid, hasObserver, observed,
                   lastObserved, pc, resolvedCalls, failedCalls,
                   ridx, pending, userCancelled, lastEnd, saved, agent,
                   reloaded, cleanVars, opsDone, llmTotal, otherVars>>

\* the position of the runner after the call at ridx is finished
RunnerAdvance ==
    IF ridx < Len(resolvedCalls)
    THEN ridx' = ridx + 1 /\ pc' = "call"
    ELSE ridx' = ridx /\ pc' = "post_turn"

\* invoke ends with a result: history_append_func, then yield ToolResultEvent
InvokeSuccess ==
    /\ pc = "invoke"
    /\ messages' = Append(messages, ToolMsg(nextMid, resolvedCalls[ridx], ResultText))
    /\ nextMid' = nextMid + 1
    /\ events' = Append(events, ToolResultEvent(resolvedCalls[ridx], "ok"))
    /\ RunnerAdvance
    /\ UNCHANGED <<nextCid, hasObserver, observed, lastObserved,
                   resolvedCalls, failedCalls, streamed, pending,
                   userCancelled, lastEnd, saved, agent, reloaded, cleanVars,
                   opsDone, llmTotal, devs, otherVars>>

\* invoke raises ToolError or ToolPermissionError, or ends without a result:
\* yield ToolResultEvent(error)
InvokeToolError ==
    /\ pc = "invoke"
    /\ devs < MaxDeviations /\ devs' = devs + 1
    /\ events' = Append(events, ToolResultEvent(resolvedCalls[ridx], "error"))
    /\ pending' = ErrorText
    /\ pc' = "append"
    /\ UNCHANGED <<messages, nextMid, nextCid, hasObserver, observed,
                   lastObserved, resolvedCalls, failedCalls, ridx,
                   streamed, userCancelled, lastEnd, saved, agent, reloaded,
                   cleanVars, opsDone, llmTotal, otherVars>>

\* invoke raises any other exception: nothing catches it, act ends
InvokeOtherException ==
    /\ pc = "invoke"
    /\ devs < MaxDeviations /\ devs' = devs + 1
    /\ ActEnd(messages, observed, lastObserved, "exception")
    /\ UNCHANGED <<nextMid, nextCid, hasObserver, events, runnerVars,
                   userCancelled, agent, reloaded, cleanVars, opsDone,
                   llmTotal, otherVars>>

\* asyncio.CancelledError inside invoke: yield ToolResultEvent(cancel)
InvokeCancelled ==
    /\ pc = "invoke"
    /\ devs < MaxDeviations /\ devs' = devs + 1
    /\ events' = Append(events, ToolResultEvent(resolvedCalls[ridx], "cancel"))
    /\ pc' = "append_raise"
    /\ UNCHANGED <<messages, nextMid, nextCid, hasObserver, observed,
                   lastObserved, runnerVars, userCancelled, lastEnd,
                   saved, agent, reloaded, cleanVars, opsDone, llmTotal,
                   otherVars>>

RunnerAppendForgets ==
    /\ pc = "append"
    /\ RunnerAdvance
    /\ UNCHANGED <<messages, nextMid, nextCid, hasObserver, observed,
                   lastObserved, events, resolvedCalls, failedCalls, streamed,
                   pending, userCancelled, lastEnd, saved, agent, reloaded,
                   cleanVars, opsDone, llmTotal, devs, otherVars>>

\* after an error or skip event: history_append_func, continue
RunnerAppend ==
    /\ pc = "append"
    /\ messages' = Append(messages, ToolMsg(nextMid, resolvedCalls[ridx], pending))
    /\ nextMid' = nextMid + 1
    /\ RunnerAdvance
    /\ UNCHANGED <<nextCid, hasObserver, observed, lastObserved, events,
                   resolvedCalls, failedCalls, streamed, pending,
                   userCancelled, lastEnd, saved, agent, reloaded, cleanVars,
                   opsDone, llmTotal, devs, otherVars>>

\* after the cancellation event: history_append_func, raise; the finally
\* clause of _conversation_loop runs and act ends
RunnerAppendRaise ==
    /\ pc = "append_raise"
    /\ ActEnd(Append(messages, ToolMsg(nextMid, resolvedCalls[ridx], InterruptedText)),
              observed, lastObserved, "cancel_tool")
    /\ nextMid' = nextMid + 1
    /\ UNCHANGED <<nextCid, hasObserver, events, runnerVars, userCancelled,
                   agent, reloaded, cleanVars, opsDone, llmTotal, devs, otherVars>>

\* ------------------------------------------------------------------ after the turn
\* should_break_loop of _conversation_loop
ShouldBreakLoop(msgs) == msgs[Len(msgs)].role # "tool"

\* after the turn a user cancellation event was seen: flush, return
PostTurnCancelled ==
    /\ pc = "post_turn" /\ userCancelled
    /\ ActEnd(messages, observed, lastObserved, "user_cancel")
    /\ UNCHANGED <<nextMid, nextCid, hasObserver, events, runnerVars,
                   userCancelled, agent, reloaded, cleanVars, opsDone,
                   llmTotal, devs, otherVars>>

\* flush, run_after_turn answers CONTINUE: loop back or leave the loop
AfterTurnContinue ==
    /\ pc = "post_turn" /\ ~userCancelled
    /\ \E a \in LoopAnswerVectors :
         ~RunAfterTurn(a).raised /\ RunAfterTurn(a).result.action = "CONTINUE"
    /\ IF ShouldBreakLoop(messages)
       THEN ActEnd(messages, observed, lastObserved, "normal")
       ELSE LET f == FlushNewMessages(messages, observed, lastObserved, hasObserver)
            IN /\ observed' = f.obs
               /\ lastObserved' = f.idx
               /\ pc' = "before_turn"
               /\ UNCHANGED <<messages, saved, lastEnd>>
    /\ UNCHANGED <<nextMid, nextCid, hasObserver, events, runnerVars,
                   userCancelled, agent, reloaded, cleanVars, opsDone,
                   llmTotal, devs, otherVars>>

\* flush, run_after_turn answers STOP: the stop event, return
AfterTurnStop ==
    /\ pc = "post_turn" /\ ~userCancelled
    /\ devs < MaxDeviations /\ devs' = devs + 1
    /\ \E a \in LoopAnswerVectors :
         ~RunAfterTurn(a).raised /\ RunAfterTurn(a).result.action = "STOP"
    /\ events' = Append(events, StopEvent)
    /\ ActEnd(messages, observed, lastObserved, "stop")
    /\ UNCHANGED <<nextMid, nextCid, hasObserver, runnerVars,
                   userCancelled, agent, reloaded, cleanVars, opsDone,
                   llmTotal, otherVars>>

\* flush, run_after_turn raises ValueError on INJECT_MESSAGE
AfterTurnInject ==
    /\ pc = "post_turn" /\ ~userCancelled
    /\ devs < MaxDeviations /\ devs' = devs + 1
    /\ \E a \in LoopAnswerVectors : RunAfterTurn(a).raised
    /\ ActEnd(messages, observed, lastObserved, "exception")
    /\ UNCHANGED <<nextMid, nextCid, hasObserver, events, runnerVars,
                   userCancelled, agent, reloaded, cleanVars, opsDone,
                   llmTotal, otherVars>>

\* flush, run_after_turn answers COMPACT: CompactStartEvent, compact(),
\* CompactEndEvent, then loop back or leave the loop
AfterTurnCompact ==
    /\ pc = "post_turn" /\ ~userCancelled
    /\ devs < MaxDeviations /\ devs' = devs + 1
    /\ \E a \in LoopAnswerVectors :
         ~RunAfterTurn(a).raised /\ RunAfterTurn(a).result.action = "COMPACT"
    /\ \E o \in CompactOutcomes :
         LET f == FlushNewMessages(messages, observed, lastObserved, hasObserver)
             c == CompactBody(messages, nextMid, o)
         IN /\ nextMid' = c.nextMid
            /\ cleanIn' = messages
            /\ cleanOut' = c.cleaned
            /\ cleanCtx' = "compact"
            /\ IF ~c.ok
               THEN /\ events' = Append(events, CompactStartEvent)
                    /\ ActEnd(c.messages, f.obs, f.idx, "exception")
               ELSE /\ events' = events \o <<CompactStartEvent, CompactEndEvent>>
                    /\ IF ShouldBreakLoop(messages)
                       THEN ActEnd(c.messages, f.obs, f.idx, "normal")
                       ELSE /\ messages' = c.messages
                            /\ observed' = f.obs
                            /\ lastObserved' = f.idx
                            /\ saved' = Mids(c.messages)
                            /\ pc' = "before_turn"
                            /\ UNCHANGED lastEnd
    /\ UNCHANGED <<nextCid, hasObserver, runnerVars, userCancelled, agent,
                   reloaded, opsDone, llmTotal, otherVars>>

\* ------------------------------------------------------------------ other operations
\* compact() called on its own
Compact ==
    /\ pc = "idle" /\ opsDone < MaxOps
    /\ \E o \in CompactOutcomes :
         LET c == CompactBody(messages, nextMid, o)
         IN /\ messages' = c.messages
            /\ nextMid' = c.nextMid
            /\ saved' = Mids(c.messages)
            /\ cleanIn' = messages
            /\ cleanOut' = c.cleaned
            /\ cleanCtx' = "compact"
            /\ lastEnd' = IF c.ok THEN "compact" ELSE "compact_failed"
    /\ opsDone' = opsDone + 1
    /\ UNCHANGED <<nextCid, hasObserver, observed, lastObserved, events, pc,
                   runnerVars, userCancelled, agent, reloaded, llmTotal,
                   devs, otherVars>>

\* clear_history
ClearHistory ==
    /\ pc = "idle" /\ opsDone < MaxOps
    /\ saved' = Mids(messages)
    /\ messages' = SubSeq(messages, 1, 1)
    /\ lastEnd' = "clear"
    /\ opsDone' = opsDone + 1
    /\ UNCHANGED <<nextMid, nextCid, hasObserver, observed, lastObserved,
                   events, pc, runnerVars, userCancelled, agent,
                   reloaded, cleanVars, llmTotal, devs, otherVars>>

\* the body of reload_with_initial_messages
ReloadBody ==
    LET new == ReplaceSystemMessage(messages, nextMid)
    IN /\ messages' = new
       /\ nextMid' = nextMid + 1
       /\ observed' = IF hasObserver THEN observed \o Mids(new) ELSE observed
       /\ lastObserved' = IF hasObserver THEN Len(new) ELSE 0
       /\ saved' = Mids(new)
       /\ reloaded' = TRUE
       /\ lastEnd' = "reload"

\* reload_with_initial_messages
ReloadWithInitialMessages ==
    /\ pc = "idle" /\ opsDone < MaxOps
    /\ ReloadBody
    /\ opsDone' = opsDone + 1
    /\ UNCHANGED <<nextCid, hasObserver, events, pc, runnerVars, userCancelled,
                   agent, cleanVars, llmTotal, devs, otherVars>>

\* switch_agent to another profile (a call naming the active one returns at once)
SwitchAgent ==
    /\ pc = "idle" /\ opsDone < MaxOps
    /\ \E name \in {"default", "plan"} :
         /\ name # agent
         /\ agent' = name
    /\ ReloadBody
    /\ opsDone' = opsDone + 1
    /\ UNCHANGED <<nextCid, hasObserver, events, pc, runnerVars, userCancelled,
                   cleanVars, llmTotal, devs, otherVars>>

Init == LoopInit /\ ParkedExcept("loop")

Next ==
    \/ Act
    \/ BeforeTurnContinue
    \/ BeforeTurnInject
    \/ BeforeTurnStop
    \/ BeforeTurnCompact
    \/ LLMTurn
    \/ LLMFail
    \/ RunnerFailedYield
    \/ RunnerFailedAppend
    \/ RunnerCall
    \/ RunnerLookupFail
    \/ RunnerSkip
    \/ RunnerApprovalRaise
    \/ RunnerExecute
    \/ InvokeStream
    \/ InvokeSuccess
    \/ InvokeToolError
    \/ InvokeOtherException
    \/ InvokeCancelled
    \/ RunnerAppend
    \/ RunnerAppendRaise
    \/ PostTurnCancelled
    \/ AfterTurnContinue
    \/ AfterTurnStop
    \/ AfterTurnInject
    \/ AfterTurnCompact
    \/ Compact
    \/ ClearHistory
    \/ ReloadWithInitialMessages
    \/ SwitchAgent

Spec == Init /\ [][Next]_vars

\* ------------------------------------------------------------------ clean() on arbitrary histories
\* message shapes: a user message, a tool message, an assistant message with
\* 0, 1 or MaxPerMsg tool calls
Shapes ==
    {[role |-> "user", k |-> 0], [role |-> "tool", k |-> 0]}
    \cup {[role |-> "assistant", k |-> k] : k \in 0..MaxPerMsg}

ShapeMsg(shape, i) ==
    IF shape.role = "user" THEN UserMsg(i, <<"user">>)
    ELSE IF shape.role = "tool" THEN ToolMsg(i, 0, ResultText)
    ELSE Msg(i, "assistant", <<"text">>,
             [j \in 1..shape.k |-> MaxPerMsg * i + j], 0)

Histories ==
    UNION {{<<SystemMsg(0)>> \o [i \in 1..n |-> ShapeMsg(f[i], i)] :
              f \in [1..n -> Shapes]} : n \in 0..MaxHist}

HistInit ==
    /\ hIn \in Histories
    /\ hOnce = <<>>
    /\ hTwice = <<>>
    /\ hpc = "start"
    /\ ParkedExcept("hist")

\* history.clean()
CleanOnce ==
    /\ hpc = "start"
    /\ hOnce' = Clean(hIn, Len(hIn))
    /\ hpc' = "once"
    /\ UNCHANGED <<hIn, hTwice, histFrame>>

\* history.clean() again
CleanTwice ==
    /\ hpc = "once"
    /\ hTwice' = Clean(hOnce, Len(hOnce))
    /\ hpc' = "twice"
    /\ UNCHANGED <<hIn, hOnce, histFrame>>

HistNext == CleanOnce \/ CleanTwice

SpecHistory == HistInit /\ [][HistNext]_vars

\* ------------------------------------------------------------------ run_before_turn on arbitrary pipelines
PipeInit ==
    /\ mwAnswers \in UNION {[1..n -> StudyAnswers] : n \in 0..NumMw}
    /\ mwResult = Continue
    /\ mwInvoked = 0
    /\ mwRaised = FALSE
    /\ mwpc = "start"
    /\ ParkedExcept("pipe")

\* await pipeline.run_before_turn(context)
RunPipelineBeforeTurn ==
    /\ mwpc = "start"
    /\ mwResult' = RunBeforeTurn(mwAnswers).result
    /\ mwInvoked' = RunBeforeTurn(mwAnswers).invoked
    /\ mwpc' = "done"
    /\ UNCHANGED <<mwAnswers, mwRaised, pipeFrame>>

\* await pipeline.run_after_turn(context)
RunPipelineAfterTurn ==
    /\ mwpc = "start"
    /\ mwResult' = RunAfterTurn(mwAnswers).result
    /\ mwInvoked' = RunAfterTurn(mwAnswers).invoked
    /\ mwRaised' = RunAfterTurn(mwAnswers).raised
    /\ mwpc' = "after_done"
    /\ UNCHANGED <<mwAnswers, pipeFrame>>

PipeNext == RunPipelineBeforeTurn \/ RunPipelineAfterTurn

SpecPipeline == PipeInit /\ [][PipeNext]_vars

\* ------------------------------------------------------------------ the first act under a turn limit
\* a turn limit that forgets the step of the user message
TurnLimitOffByOne(steps, maxTurns) ==
    IF steps >= maxTurns THEN MwResult("STOP", <<>>, maxTurns) ELSE Continue

\* TurnLimitMiddleware.before_turn; the reason stands for
\* "Turn limit of {max_turns} reached"
TurnLimitBeforeTurn(steps, maxTurns) ==
    IF steps - 1 >= maxTurns THEN MwResult("STOP", <<>>, maxTurns) ELSE Continue

\* before_turn answers of the middlewares registered after the turn limit
\* (price limit, auto compact, context warning, plan agent); the reason -1
\* stands for a stop that is not the turn limit's
LaterAnswers ==
    {Continue, MwResult("COMPACT", <<>>, 0), MwResult("STOP", <<>>, 0 - 1),
     MwResult("INJECT_MESSAGE", <<"reminder">>, 0)}

\* a fresh AgentLoop with max_turns set: _setup_middleware registers
\* TurnLimitMiddleware first; stats.steps is 0
LimitInit ==
    /\ tlMax \in 0..MaxTurnLimit
    /\ tlSteps = 0 /\ tlTurns = 0 /\ tlCompactions = 0
    /\ tlAllTools = TRUE /\ tlEnd = [kind |-> "none", reason |-> 0]
    /\ tlActs = 0
    /\ tlpc = "idle"
    /\ ParkedExcept("limit")

\* an act that starts with a step counter of its own
LimitActOwnBudget ==
    /\ tlpc \in {"idle", "ended"} /\ tlActs < MaxActs
    /\ tlSteps' = 1
    /\ tlActs' = tlActs + 1
    /\ tlAllTools' = TRUE
    /\ tlpc' = "before_turn"
    /\ UNCHANGED <<tlMax, tlTurns, tlCompactions, tlEnd>>
    /\ UNCHANGED limitFrame

\* act, the first or a later one on the same loop: the user message is
\* appended and stats.steps += 1
LimitAct ==
    /\ tlpc \in {"idle", "ended"} /\ tlActs < MaxActs
    /\ tlSteps' = tlSteps + 1
    /\ tlActs' = tlActs + 1
    /\ tlAllTools' = TRUE
    /\ tlpc' = "before_turn"
    /\ UNCHANGED <<tlMax, tlTurns, tlCompactions, tlEnd>>
    /\ UNCHANGED limitFrame

\* run_before_turn answers CONTINUE or INJECT_MESSAGE: stats.steps += 1 and
\* the LLM turn starts
LimitBeforeTurnContinue ==
    /\ tlpc = "before_turn"
    /\ \E later \in LaterAnswers :
         RunBeforeTurn(<<TurnLimitBeforeTurn(tlSteps, tlMax), later>>).result.action
           \in {"CONTINUE", "INJECT_MESSAGE"}
    /\ tlSteps' = tlSteps + 1
    /\ tlpc' = "llm"
    /\ UNCHANGED <<tlMax, tlActs, tlTurns, tlCompactions, tlAllTools, tlEnd>>
    /\ UNCHANGED limitFrame

\* run_before_turn answers COMPACT: compact() does stats.steps += 1, then
\* stats.steps += 1 again and the LLM turn starts
LimitBeforeTurnCompact ==
    /\ tlpc = "before_turn" /\ tlCompactions < MaxCompactions
    /\ \E later \in LaterAnswers :
         RunBeforeTurn(<<TurnLimitBeforeTurn(tlSteps, tlMax), later>>).result.action
           = "COMPACT"
    /\ tlSteps' = tlSteps + 2
    /\ tlCompactions' = tlCompactions + 1
    /\ tlpc' = "llm"
    /\ UNCHANGED <<tlMax, tlActs, tlTurns, tlAllTools, tlEnd>>
    /\ UNCHANGED limitFrame

\* run_before_turn answers STOP: the stop event with the reason, return
LimitBeforeTurnStop ==
    /\ tlpc = "before_turn"
    /\ \E later \in LaterAnswers :
         LET r == RunBeforeTurn(<<TurnLimitBeforeTurn(tlSteps, tlMax), later>>).result
         IN /\ r.action = "STOP"
            /\ tlEnd' = [kind |-> "stop", reason |-> r.reason]
    /\ tlpc' = "ended"
    /\ UNCHANGED <<tlMax, tlActs, tlSteps, tlTurns, tlCompactions, tlAllTools>>
    /\ UNCHANGED limitFrame

\* the LLM turn ends with tool messages (the model requested tools and the
\* runner answered them): should_break_loop is false, the loop goes on
LimitTurnWithTools ==
    /\ tlpc = "llm"
    /\ tlTurns' = tlTurns + 1
    /\ tlpc' = "before_turn"
    /\ UNCHANGED <<tlMax, tlActs, tlSteps, tlCompactions, tlAllTools, tlEnd>>
    /\ UNCHANGED limitFrame

\* the LLM turn ends without tool calls: should_break_loop, act ends
LimitTurnFinal ==
    /\ tlpc = "llm"
    /\ tlTurns' = tlTurns + 1
    /\ tlAllTools' = FALSE
    /\ tlEnd' = [kind |-> "normal", reason |-> 0]
    /\ tlpc' = "ended"
    /\ UNCHANGED <<tlMax, tlActs, tlSteps, tlCompactions>>
    /\ UNCHANGED limitFrame

\* the LLM turn is cut short: the LLM call or a tool raises, the task is
\* cancelled, or the user cancels a call; act ends
LimitTurnAborted ==
    /\ tlpc = "llm"
    /\ tlTurns' = tlTurns + 1
    /\ tlAllTools' = FALSE
    /\ tlEnd' = [kind |-> "aborted", reason |-> 0]
    /\ tlpc' = "ended"
    /\ UNCHANGED <<tlMax, tlActs, tlSteps, tlCompactions>>
    /\ UNCHANGED limitFrame

\* compact() called between acts: stats.steps += 1 before the summary call,
\* whether or not that call succeeds
LimitCompact ==
    /\ tlpc \in {"idle", "ended"} /\ tlCompactions < MaxCompactions
    /\ tlSteps' = tlSteps + 1
    /\ tlCompactions' = tlCompactions + 1
    /\ UNCHANGED <<tlMax, tlActs, tlTurns, tlAllTools, tlEnd, tlpc>>
    /\ UNCHANGED limitFrame

\* clear_history between acts: llm_client.stats = AgentStats(), so
\* stats.steps is 0 again
LimitClearHistory ==
    /\ tlpc \in {"idle", "ended"}
    /\ tlSteps' = 0 /\ tlTurns' = 0 /\ tlCompactions' = 0
    /\ tlAllTools' = TRUE /\ tlEnd' = [kind |-> "none", reason |-> 0]
    /\ tlpc' = "idle"
    /\ UNCHANGED <<tlMax, tlActs>>
    /\ UNCHANGED limitFrame

LimitNext ==
    \/ LimitAct
    \/ LimitCompact
    \/ LimitClearHistory
    \/ LimitBeforeTurnContinue
    \/ LimitBeforeTurnCompact
    \/ LimitBeforeTurnStop
    \/ LimitTurnWithTools
    \/ LimitTurnFinal
    \/ LimitTurnAborted

SpecTurnLimit == LimitInit /\ [][LimitNext]_vars

\* ------------------------------------------------------------------ the execute/skip decision
\* ToolDecision, with asked telling whether the approval callback was called;
\* the verdict "raised" stands for an exception leaving _should_execute
Decision(verdict, feedback, asked) ==
    [verdict |-> verdict, feedback |-> feedback, asked |-> asked]

\* ToolRunner._ask_approval: a callback that raises, or answers neither YES
\* nor NO (the match falls through and None is returned), ends in an exception
AskApproval(hasCallback, response) ==
    IF ~hasCallback THEN Decision("SKIP", "not permitted", FALSE)
    ELSE IF response = "YES" THEN Decision("EXECUTE", "callback", TRUE)
    ELSE IF response = "NO" THEN Decision("SKIP", "callback", TRUE)
    ELSE Decision("raised", "none", TRUE)

\* a decision that looks at the configured permission before the
\* allowlist/denylist check
ShouldExecutePermissionFirst(auto, listed, perm, hasCallback, response) ==
    IF auto THEN Decision("EXECUTE", "none", FALSE)
    ELSE IF perm = "ALWAYS" THEN Decision("EXECUTE", "none", FALSE)
    ELSE IF perm = "NEVER" THEN Decision("SKIP", "disabled", FALSE)
    ELSE IF listed = "ALWAYS" THEN Decision("EXECUTE", "none", FALSE)
    ELSE IF listed = "NEVER" THEN Decision("SKIP", "denylist", FALSE)
    ELSE AskApproval(hasCallback, response)

\* ToolRunner._should_execute: auto is ToolRunner.auto_approve, listed the
\* answer of tool.check_allowlist_denylist(args), perm the configured
\* permission of the tool
ShouldExecute(auto, listed, perm, hasCallback, response) ==
    IF auto THEN Decision("EXECUTE", "none", FALSE)
    ELSE IF listed = "ALWAYS" THEN Decision("EXECUTE", "none", FALSE)
    ELSE IF listed = "NEVER" THEN Decision("SKIP", "denylist", FALSE)
    ELSE IF perm = "ALWAYS" THEN Decision("EXECUTE", "none", FALSE)
    ELSE IF perm = "NEVER" THEN Decision("SKIP", "disabled", FALSE)
    ELSE AskApproval(hasCallback, response)

DecInit ==
    /\ dcIn \in [auto : BOOLEAN, listed : {"ALWAYS", "NEVER", "none"},
                  perm : {"ALWAYS", "NEVER", "ASK"}, hasCallback : BOOLEAN,
                  response : {"YES", "NO", "other", "raises"}]
    /\ dcOut = Decision("none", "none", FALSE)
    /\ dcpc = "start"
    /\ ParkedExcept("decide")

\* decision = await self._should_execute(tool_instance, args, call_id)
Decide ==
    /\ dcpc = "start"
    /\ dcOut' = ShouldExecute(dcIn.auto, dcIn.listed, dcIn.perm,
                              dcIn.hasCallback, dcIn.response)
    /\ dcpc' = "done"
    /\ UNCHANGED <<dcIn, decFrame>>

DecNext == Decide

SpecDecision == DecInit /\ [][DecNext]_vars

\* ------------------------------------------------------------------ the tool call counters
\* one more ToolResultEvent of the given kinds
Seen(kinds) ==
    [k \in DOMAIN rsSeen |->
       IF k = "results" \/ k \in kinds THEN rsSeen[k] + 1 ELSE rsSeen[k]]

\* a fresh AgentStats, and the first assistant message with calls
StatInit ==
    /\ rsStats = [agreed |-> 0, rejected |-> 0, failed |-> 0, succeeded |-> 0]
    /\ rsSeen = [results |-> 0, skipped |-> 0, toolErrors |-> 0, lookups |-> 0,
                 cancelled |-> 0, unhandled |-> 0]
    /\ rsFailedLeft \in 0..MaxPerMsg
    /\ rsCallsLeft \in 0..MaxCalls
    /\ rsMsgs = 1
    /\ rspc = "between"
    /\ ParkedExcept("stats")

\* a failed call: ToolResultEvent(error), stats.tool_calls_failed += 1
StatsFailedCall ==
    /\ rspc = "between" /\ rsFailedLeft > 0
    /\ rsSeen' = Seen({})
    /\ rsStats' = [rsStats EXCEPT !.failed = @ + 1]
    /\ rsFailedLeft' = rsFailedLeft - 1
    /\ UNCHANGED <<rsCallsLeft, rsMsgs, rspc, statFrame>>

\* tool_manager.get raises: ToolResultEvent(error), no counter changes
StatsLookupFail ==
    /\ rspc = "between" /\ rsFailedLeft = 0 /\ rsCallsLeft > 0
    /\ rsSeen' = Seen({"lookups"})
    /\ rsCallsLeft' = rsCallsLeft - 1
    /\ UNCHANGED <<rsStats, rsFailedLeft, rsMsgs, rspc, statFrame>>

\* SKIP: stats.tool_calls_rejected += 1, ToolResultEvent(skipped=True)
StatsSkip ==
    /\ rspc = "between" /\ rsFailedLeft = 0 /\ rsCallsLeft > 0
    /\ rsStats' = [rsStats EXCEPT !.rejected = @ + 1]
    /\ rsSeen' = Seen({"skipped"})
    /\ rsCallsLeft' = rsCallsLeft - 1
    /\ UNCHANGED <<rsFailedLeft, rsMsgs, rspc, statFrame>>

\* EXECUTE and a result: stats.tool_calls_agreed += 1, ToolResultEvent,
\* stats.tool_calls_succeeded += 1
StatsSuccess ==
    /\ rspc = "between" /\ rsFailedLeft = 0 /\ rsCallsLeft > 0
    /\ rsStats' = [rsStats EXCEPT !.agreed = @ + 1, !.succeeded = @ + 1]
    /\ rsSeen' = Seen({})
    /\ rsCallsLeft' = rsCallsLeft - 1
    /\ UNCHANGED <<rsFailedLeft, rsMsgs, rspc, statFrame>>

\* a ToolError that is counted as agreed only
StatsToolErrorAgreedOnly ==
    /\ rspc = "between" /\ rsFailedLeft = 0 /\ rsCallsLeft > 0
    /\ rsStats' = [rsStats EXCEPT !.agreed = @ + 1]
    /\ rsSeen' = Seen({"toolErrors"})
    /\ rsCallsLeft' = rsCallsLeft - 1
    /\ UNCHANGED <<rsFailedLeft, rsMsgs, rspc, statFrame>>

\* EXECUTE and ToolError (or no result): stats.tool_calls_agreed += 1,
\* ToolResultEvent(error), stats.tool_calls_failed += 1
StatsToolError ==
    /\ rspc = "between" /\ rsFailedLeft = 0 /\ rsCallsLeft > 0
    /\ rsStats' = [rsStats EXCEPT !.agreed = @ + 1, !.failed = @ + 1]
    /\ rsSeen' = Seen({"toolErrors"})
    /\ rsCallsLeft' = rsCallsLeft - 1
    /\ UNCHANGED <<rsFailedLeft, rsMsgs, rspc, statFrame>>

\* EXECUTE and ToolPermissionError: agreed += 1, ToolResultEvent(error),
\* agreed -= 1, rejected += 1
StatsPermissionError ==
    /\ rspc = "between" /\ rsFailedLeft = 0 /\ rsCallsLeft > 0
    /\ rsStats' = [rsStats EXCEPT !.rejected = @ + 1]
    /\ rsSeen' = Seen({})
    /\ rsCallsLeft' = rsCallsLeft - 1
    /\ UNCHANGED <<rsFailedLeft, rsMsgs, rspc, statFrame>>

\* EXECUTE and CancelledError: agreed += 1, ToolResultEvent(cancel), raise
StatsCancelled ==
    /\ rspc = "between" /\ rsFailedLeft = 0 /\ rsCallsLeft > 0
    /\ rsStats' = [rsStats EXCEPT !.agreed = @ + 1]
    /\ rsSeen' = Seen({"cancelled"})
    /\ rspc' = "ended"
    /\ UNCHANGED <<rsFailedLeft, rsCallsLeft, rsMsgs, statFrame>>

\* _should_execute raises: no counter, no event, the exception leaves the
\* runner
StatsApprovalRaise ==
    /\ rspc = "between" /\ rsFailedLeft = 0 /\ rsCallsLeft > 0
    /\ rspc' = "ended"
    /\ UNCHANGED <<rsStats, rsSeen, rsFailedLeft, rsCallsLeft, rsMsgs, statFrame>>

\* EXECUTE and an exception no handler catches: agreed += 1, no event
StatsInvokeRaise ==
    /\ rspc = "between" /\ rsFailedLeft = 0 /\ rsCallsLeft > 0
    /\ rsStats' = [rsStats EXCEPT !.agreed = @ + 1]
    /\ rsSeen' = [rsSeen EXCEPT !.unhandled = @ + 1]
    /\ rspc' = "ended"
    /\ UNCHANGED <<rsFailedLeft, rsCallsLeft, rsMsgs, statFrame>>

\* the runner returns, and a later LLM turn (of this act or, after an act
\* that ended, of the next) hands it another assistant message with calls
StatsNextMessage ==
    /\ \/ rspc = "between" /\ rsFailedLeft = 0 /\ rsCallsLeft = 0
       \/ rspc = "ended"
    /\ rsMsgs < MaxStatMsgs
    /\ rsMsgs' = rsMsgs + 1
    /\ rsFailedLeft' \in 0..MaxPerMsg
    /\ rsCallsLeft' \in 0..MaxCalls
    /\ rspc' = "between"
    /\ UNCHANGED <<rsStats, rsSeen, statFrame>>

StatNext ==
    \/ StatsFailedCall
    \/ StatsLookupFail
    \/ StatsSkip
    \/ StatsSuccess
    \/ StatsToolError
    \/ StatsPermissionError
    \/ StatsCancelled
    \/ StatsApprovalRaise
    \/ StatsInvokeRaise
    \/ StatsNextMessage

SpecRunnerStats == StatInit /\ [][StatNext]_vars

\* ------------------------------------------------------------------ compact() and clear_history()
\* backend.count_tokens(messages): one token per message and per word
RECURSIVE CountTokens(_)
CountTokens(msgs) ==
    IF msgs = <<>> THEN 0
    ELSE 1 + Len(msgs[1].content) + CountTokens(Tail(msgs))

\* LLMClient._update_stats after a call that used usage tokens
UpdateStats(stats, usage) ==
    [stats EXCEPT !.sessionTokens = @ + usage, !.contextTokens = usage]

\* a compaction that leaves context_tokens as the summary call set it
CompactedStatsKeepsUsage(stats, usage, newMsgs) ==
    UpdateStats([stats EXCEPT !.steps = @ + 1], usage)

\* stats after a successful compact(): steps += 1, the summary call's usage,
\* then context_tokens = count_tokens(the new messages)
CompactedStats(stats, usage, newMsgs) ==
    [UpdateStats([stats EXCEPT !.steps = @ + 1], usage)
       EXCEPT !.contextTokens = CountTokens(newMsgs)]

\* a clear_history that forgets to re-populate the prices
ClearedStatsWithoutPrices(config) ==
    [FreshStats EXCEPT !.maxContext = config.maxContext]

\* stats after clear_history(): AgentStats(), update_pricing(...) and
\* max_context_window from the configuration
ClearedStats(config) ==
    [FreshStats EXCEPT !.inputPrice = config.inputPrice,
                       !.outputPrice = config.outputPrice,
                       !.maxContext = config.maxContext]

\* a session rotation that leaves the LLM client on the old id
ResetSessionLoopOnly(session, fresh) ==
    [session EXCEPT !.loop = fresh, !.logger = fresh]

\* AgentLoop._reset_session with uuid4() returning fresh
ResetSession(session, fresh) ==
    [loop |-> fresh, logger |-> fresh, client |-> fresh]

\* histories a loop may hold when compact() or clear_history() is called
MaintHistories == {h \in Histories : Len(h) <= 3}

\* configurations: prices and context window they resolve to
MaintConfigs ==
    {[inputPrice |-> 1, outputPrice |-> 2, maxContext |-> 10],
     [inputPrice |-> 2, outputPrice |-> 3, maxContext |-> 20]}

MaintInit ==
    /\ mtMsgs \in MaintHistories
    /\ mtConfig \in MaintConfigs
    /\ mtStats \in {ClearedStats(c) : c \in MaintConfigs}
                   \cup {[steps |-> 3, sessionTokens |-> 9, contextTokens |-> 9,
                          toolCalls |-> 2, inputPrice |-> 1, outputPrice |-> 2,
                          maxContext |-> 10]}
    /\ mtSession = [loop |-> 0, logger |-> 0, client |-> 0]
    /\ mtFresh = 1
    /\ mtReset = [i \in 1..NumMw |-> "none"]
    /\ mtWarned \in BOOLEAN
    /\ mtBefore = [system |-> mtMsgs[1], session |-> 0]
    /\ mtSummary = <<>>
    /\ mtEnd = "none"
    /\ mtInjected = (IF mtWarned THEN 1 ELSE 0)
    /\ ParkedExcept("maint")

\* compact() or clear_history() may be called: the loop is between two steps
MaintReady ==
    /\ mtEnd \in {"none", "compact_ok", "cleared", "chat", "warned", "quiet"}
    /\ mtFresh <= MaxSessions

\* what the operation that begins will be compared with
MaintBegin == mtBefore' = [system |-> mtMsgs[1], session |-> mtSession.loop]

\* a reset that clears the flag on STOP only
ContextWarningResetOnStopOnly(hasWarned, reason) ==
    IF reason = "STOP" THEN FALSE ELSE hasWarned

\* ContextWarningMiddleware.reset: `_ = reset_reason; self.has_warned = False`
ContextWarningReset(hasWarned, reason) == FALSE

\* ContextWarningMiddleware.before_turn with threshold_percent 0.5
\* (context_tokens >= max_context * 0.5, written without fractions)
ContextWarningFires(hasWarned, stats, maxContext) ==
    ~hasWarned /\ maxContext > 0 /\ stats.contextTokens * 2 >= maxContext

\* ContextWarningMiddleware.before_turn
MaintBeforeTurn ==
    /\ mtEnd \in {"none", "compact_ok", "cleared", "chat"}
    /\ LET fires == ContextWarningFires(mtWarned, mtStats, mtConfig.maxContext)
       IN /\ mtWarned' = (mtWarned \/ fires)
          /\ mtInjected' = IF fires THEN mtInjected + 1 ELSE mtInjected
          /\ mtEnd' = IF fires THEN "warned" ELSE "quiet"
    /\ UNCHANGED <<mtMsgs, mtStats, mtSession, mtFresh, mtReset, mtConfig,
                   mtBefore, mtSummary, maintFrame>>

\* LLMClient.chat of the turn that follows before_turn: _update_stats
MaintChat ==
    /\ mtEnd \in {"warned", "quiet"}
    /\ mtStats.sessionTokens < MaxSessionTokens
    /\ \E usage \in {5, 12} : mtStats' = UpdateStats(mtStats, usage)
    /\ mtEnd' = "chat"
    /\ UNCHANGED <<mtMsgs, mtSession, mtFresh, mtReset, mtWarned, mtConfig,
                   mtBefore, mtSummary, mtInjected, maintFrame>>

\* compact(): the summary call fails (RuntimeError from chat)
MaintCompactChatFails ==
    /\ MaintReady /\ MaintBegin
    /\ mtMsgs' = CompactBody(mtMsgs, Len(mtMsgs), "chat_fail").messages
    /\ mtStats' = [mtStats EXCEPT !.steps = @ + 1]
    /\ mtEnd' = "compact_failed"
    /\ UNCHANGED <<mtSession, mtFresh, mtReset, mtWarned, mtConfig,
                   mtSummary, mtInjected, maintFrame>>

\* compact(): the history is replaced, then count_tokens raises
MaintCompactCountFails ==
    /\ MaintReady /\ MaintBegin
    /\ \E summary \in {<<>>, <<"summary">>}, usage \in {5, 7} :
         /\ mtSummary' = summary
         /\ mtMsgs' = [CompactBody(mtMsgs, Len(mtMsgs), "count_fail").messages
                         EXCEPT ![2].content = summary]
         /\ mtStats' = UpdateStats([mtStats EXCEPT !.steps = @ + 1], usage)
    /\ mtEnd' = "compact_failed"
    /\ UNCHANGED <<mtSession, mtFresh, mtReset, mtWarned, mtConfig,
                   mtInjected, maintFrame>>

\* compact() returns: clean, save, summary request, steps += 1, chat,
\* messages = [system, summary], count_tokens, _reset_session, save,
\* middleware_pipeline.reset(COMPACT)
MaintCompact ==
    /\ MaintReady /\ MaintBegin
    /\ \E summary \in {<<>>, <<"summary">>}, usage \in {5, 7} :
         LET new == [CompactBody(mtMsgs, Len(mtMsgs), "ok").messages
                       EXCEPT ![2].content = summary]
         IN /\ mtSummary' = summary
            /\ mtMsgs' = new
            /\ mtStats' = CompactedStats(mtStats, usage, new)
    /\ mtSession' = ResetSession(mtSession, mtFresh)
    /\ mtFresh' = mtFresh + 1
    /\ mtReset' = [i \in 1..NumMw |-> "COMPACT"]
    /\ mtWarned' = ContextWarningReset(mtWarned, "COMPACT")
    /\ mtEnd' = "compact_ok"
    /\ UNCHANGED <<mtConfig, mtInjected, maintFrame>>

\* clear_history(): save, messages[:1], fresh stats with prices and window,
\* middleware_pipeline.reset(), tool_manager.reset_all(), _reset_session
MaintClearHistory ==
    /\ MaintReady /\ MaintBegin
    /\ mtMsgs' = SubSeq(mtMsgs, 1, 1)
    /\ mtStats' = ClearedStats(mtConfig)
    /\ mtReset' = [i \in 1..NumMw |-> "STOP"]
    /\ mtWarned' = ContextWarningReset(mtWarned, "STOP")
    /\ mtInjected' = 0
    /\ mtSession' = ResetSession(mtSession, mtFresh)
    /\ mtFresh' = mtFresh + 1
    /\ mtEnd' = "cleared"
    /\ UNCHANGED <<mtConfig, mtSummary, maintFrame>>

MaintNext ==
    \/ MaintBeforeTurn
    \/ MaintChat
    \/ MaintCompactChatFails
    \/ MaintCompactCountFails
    \/ MaintCompact
    \/ MaintClearHistory

SpecMaintenance == MaintInit /\ [][MaintNext]_vars

\* ------------------------------------------------------------------ _stream_assistant_events
BATCH_SIZE == 5

\* str.strip() of the joined pieces is non-empty
StripNonEmpty(pieces) == \E i \in 1..Len(pieces) : pieces[i] # " "

\* the chunks a backend may yield: content "", " " or "a" (as pieces),
\* reasoning_content "" or "r"
StreamChunks ==
    [content : {<<>>, <<" ">>, <<"a">>}, reasoning : {<<>>, <<"r">>}]

AssistantEv(pieces) == [type |-> "assistant", content |-> pieces]
ReasoningEv(pieces) == [type |-> "reasoning", content |-> pieces]

\* the content buffer flushed when a reasoning chunk arrives: `if content_buffer`
BoundaryFlush(buffer) ==
    IF buffer # <<>> THEN <<AssistantEv(buffer)>> ELSE <<>>

StreamInit ==
    /\ stLeft = MaxChunks
    /\ stContent = <<>>
    /\ stReasoning = <<>>
    /\ stNC = 0
    /\ stNR = 0
    /\ stAgg = [content |-> <<>>, reasoning |-> <<>>]
    /\ stEvents = <<>>
    /\ stAppended = <<>>
    /\ stpc = "streaming"
    /\ ParkedExcept("stream")

\* one iteration of `async for chunk in chat_streaming(...)`
StreamChunk ==
    /\ stpc = "streaming" /\ stLeft > 0
    /\ \E chunk \in StreamChunks :
         LET hasR == chunk.reasoning # <<>>
             hasC == chunk.content # <<>>
             \* if chunk.message.reasoning_content:
             ev1 == IF hasR THEN BoundaryFlush(stContent) ELSE <<>>
             c1  == IF hasR THEN <<>> ELSE stContent
             nc1 == IF hasR /\ stContent # <<>> THEN 0 ELSE stNC
             r1  == IF hasR THEN stReasoning \o chunk.reasoning ELSE stReasoning
             nr1 == IF hasR THEN stNR + 1 ELSE stNR
             fullR == hasR /\ nr1 >= BATCH_SIZE
             ev2 == IF fullR THEN <<ReasoningEv(r1)>> ELSE <<>>
             r2  == IF fullR THEN <<>> ELSE r1
             nr2 == IF fullR THEN 0 ELSE nr1
             \* if chunk.message.content:
             ev3 == IF hasC /\ r2 # <<>> THEN <<ReasoningEv(r2)>> ELSE <<>>
             r3  == IF hasC THEN <<>> ELSE r2
             nr3 == IF hasC /\ r2 # <<>> THEN 0 ELSE nr2
             c2  == IF hasC THEN c1 \o chunk.content ELSE c1
             nc2 == IF hasC THEN nc1 + 1 ELSE nc1
             fullC == hasC /\ nc2 >= BATCH_SIZE
             ev4 == IF fullC /\ StripNonEmpty(c2) THEN <<AssistantEv(c2)>> ELSE <<>>
             c3  == IF fullC THEN <<>> ELSE c2
             nc3 == IF fullC THEN 0 ELSE nc2
         IN /\ stAgg' = [content |-> stAgg.content \o chunk.content,
                         reasoning |-> stAgg.reasoning \o chunk.reasoning]
            /\ stEvents' = stEvents \o ev1 \o ev2 \o ev3 \o ev4
            /\ stContent' = c3
            /\ stNC' = nc3
            /\ stReasoning' = r3
            /\ stNR' = nr3
    /\ stLeft' = stLeft - 1
    /\ UNCHANGED <<stAppended, stpc, streamFrame>>

\* the stream ends: flush both buffers, then self.messages.append(chunk_agg.message)
StreamEnd ==
    /\ stpc = "streaming"
    /\ LET evR == IF stReasoning # <<>> THEN <<ReasoningEv(stReasoning)>> ELSE <<>>
           evC == IF StripNonEmpty(stContent) THEN <<AssistantEv(stContent)>> ELSE <<>>
       IN /\ stEvents' = stEvents \o evR \o evC
          /\ stAppended' = Append(stAppended,
                                  [message |-> stAgg, after |-> Len(stEvents) + Len(evR) + Len(evC)])
    /\ stpc' = "done"
    /\ UNCHANGED <<stLeft, stContent, stReasoning, stNC, stNR, stAgg, streamFrame>>

\* chat_streaming raises (RuntimeError): nothing is flushed or appended
StreamRaise ==
    /\ stpc = "streaming"
    /\ stpc' = "failed"
    /\ UNCHANGED <<stLeft, stContent, stReasoning, stNC, stNR, stAgg, stEvents,
                   stAppended, streamFrame>>

StreamNext == StreamChunk \/ StreamEnd \/ StreamRaise

SpecStream == StreamInit /\ [][StreamNext]_vars

\* ------------------------------------------------------------------ Task tool
\* agent_manager.get_agent(name).agent_type; "unknown" when get_agent raises
AgentTypeOf(name) ==
    CASE name = "explore" -> "subagent"
      [] name = "default" -> "agent"
      [] OTHER -> "unknown"

\* a validation without the check of the agent type
TaskValidateAnyAgent(hasManager, name) ==
    IF ~hasManager THEN "no_agent_manager"
    ELSE IF AgentTypeOf(name) = "unknown" THEN "unknown_agent"
    ELSE "ok"

\* the checks at the head of Task.run: the ToolError raised, or "ok"
TaskValidate(hasManager, name) ==
    IF ~hasManager THEN "no_agent_manager"
    ELSE IF AgentTypeOf(name) = "unknown" THEN "unknown_agent"
    ELSE IF AgentTypeOf(name) # "subagent" THEN "not_subagent"
    ELSE "ok"

\* _is_tool_call_content of the joined pieces
IsToolCallContent(pieces) == \E i \in 1..Len(pieces) : pieces[i] = "<function="

\* `not content.strip()` of the joined pieces; " " is a piece of whitespace
IsBlankText(pieces) == \A i \in 1..Len(pieces) : pieces[i] = " "

\* _extract_response_from_history: the latest assistant message with
\* content that is no malformed tool call, else ""
RECURSIVE ExtractResponseFromHistory(_)
ExtractResponseFromHistory(msgs) ==
    IF msgs = <<>> THEN <<>>
    ELSE LET m == msgs[Len(msgs)]
         IN IF m.role = "assistant" /\ m.content # <<>> /\ ~IsBlankText(m.content)
                 /\ ~IsToolCallContent(m.content)
            THEN m.content
            ELSE ExtractResponseFromHistory(SubSeq(msgs, 1, Len(msgs) - 1))

\* the response of the TaskResult: the accumulated pieces, dropped when they
\* hold a malformed tool call, then the history, then the fixed sentinel
TaskResponse(acc, msgs) ==
    LET joined == IF ~IsBlankText(acc) /\ IsToolCallContent(acc) THEN <<>> ELSE acc
        fromHistory == IF IsBlankText(joined) THEN ExtractResponseFromHistory(msgs)
                       ELSE joined
    IN IF IsBlankText(fromHistory) THEN <<"no summary">> ELSE fromHistory

\* events of the subagent's act; an assistant event with empty content
\* stands for a turn that emits none
ChildEvents ==
    {[type |-> "assistant", content |-> c, stopped |-> FALSE] :
        c \in {<<>>, <<" ">>, <<"text">>, <<"<function=">>}}
    \cup {[type |-> "assistant", content |-> <<"stop">>, stopped |-> TRUE],
          [type |-> "tool_call", content |-> <<>>, stopped |-> FALSE],
          [type |-> "tool_result", content |-> <<"ok">>, stopped |-> FALSE],
          [type |-> "tool_result", content |-> <<"skipped">>, stopped |-> FALSE]}

\* what the subagent loop does to its own messages and stats with the event;
\* log holds the events its act has yielded
ChildApply(child, ev) ==
    IF ev.type = "assistant" /\ ~ev.stopped
    THEN [child EXCEPT !.messages = Append(@, [role |-> "assistant", content |-> ev.content]),
                       !.steps = @ + 1, !.tokens = @ + 1, !.events = @ + 1,
                       !.log = Append(@, ev)]
    ELSE IF ev.type = "tool_result"
    THEN [child EXCEPT !.messages = Append(@, [role |-> "tool", content |-> ev.content]),
                       !.toolCalls = @ + 1, !.events = @ + 1,
                       !.log = Append(@, ev)]
    ELSE [child EXCEPT !.events = @ + 1, !.log = Append(@, ev)]

\* an accumulation that is not reset when a tool call starts
ProcessEventResponseKeepsAll(acc, ev) ==
    IF ev.type = "assistant" /\ ev.content # <<>> THEN acc \o ev.content
    ELSE acc

\* Task._process_event on state.accumulated_response
ProcessEventResponse(acc, ev) ==
    IF ev.type = "tool_call" THEN <<>>
    ELSE IF ev.type = "assistant" /\ ev.content # <<>> THEN acc \o ev.content
    ELSE acc

\* Task._process_event on state.completed
ProcessEventCompleted(completed, ev) ==
    IF ev.type = "assistant" /\ ev.content # <<>> /\ ev.stopped THEN FALSE
    ELSE IF ev.type = "tool_result" /\ ev.content = <<"skipped">> THEN FALSE
    ELSE completed

\* the ToolStreamEvent Task.run yields for a child's ToolResultEvent with a result
ProcessEventStream(ev) ==
    IF ev.type = "tool_result" /\ ev.content = <<"ok">>
    THEN <<[item |-> "stream"]>> ELSE <<>>

TaskResultItem(response, completed) ==
    [item |-> "result", response |-> response, completed |-> completed]

TaskInit ==
    /\ tkHasManager \in BOOLEAN
    /\ tkAgent \in {"explore", "default", "nonexistent"}
    /\ tkpc = "start"
    /\ tkLoops = <<>>
    /\ tkOut = <<>>
    /\ tkAcc = <<>>
    /\ tkCompleted = TRUE
    /\ tkChild = [messages |-> <<>>, steps |-> 0, tokens |-> 0, toolCalls |-> 0,
                  events |-> 0, raised |-> FALSE, log |-> <<>>]
    /\ \E steps \in {2, 3} :
         tkParent = [messages |-> <<"system", "user", "assistant">>, steps |-> steps,
                     tokens |-> 7, agreed |-> 0, succeeded |-> 0, failed |-> 0]
    /\ tkParent0 = tkParent
    /\ ParkedExcept("task")

\* the parent's runner agrees to the call and starts Task.run: the checks,
\* then AgentLoop(config, agent_name) with its own messages and stats
TaskInvoke ==
    /\ tkpc = "start"
    /\ tkParent' = [tkParent EXCEPT !.agreed = @ + 1]
    /\ IF TaskValidate(tkHasManager, tkAgent) # "ok"
       THEN /\ tkpc' = "tool_error"
            /\ UNCHANGED <<tkLoops, tkChild>>
       ELSE /\ tkpc' = "running"
            /\ tkLoops' = Append(tkLoops, AgentTypeOf(tkAgent))
            /\ tkChild' = [messages |-> <<[role |-> "system", content |-> <<"sys">>],
                                          [role |-> "user", content |-> <<"task">>]>>,
                           steps |-> 1, tokens |-> 0, toolCalls |-> 0, events |-> 0, raised |-> FALSE, log |-> <<>>]
    /\ UNCHANGED <<tkHasManager, tkAgent, tkOut, tkAcc, tkCompleted, tkParent0, taskFrame>>

\* a subagent whose events also land in the parent's history and stats
TaskChildEventShared ==
    /\ tkpc = "running" /\ tkChild.events < MaxChildEvents
    /\ \E ev \in ChildEvents :
         /\ tkChild' = ChildApply(tkChild, ev)
         /\ tkParent' = [tkParent EXCEPT !.steps = @ + (tkChild'.steps - tkChild.steps)]
         /\ tkAcc' = ProcessEventResponse(tkAcc, ev)
         /\ tkCompleted' = ProcessEventCompleted(tkCompleted, ev)
         /\ tkOut' = tkOut \o ProcessEventStream(ev)
    /\ UNCHANGED <<tkHasManager, tkAgent, tkpc, tkLoops, tkParent0, taskFrame>>

\* one event of subagent_loop.act, handled by _process_event
TaskChildEvent ==
    /\ tkpc = "running" /\ tkChild.events < MaxChildEvents
    /\ \E ev \in ChildEvents :
         /\ tkChild' = ChildApply(tkChild, ev)
         /\ tkAcc' = ProcessEventResponse(tkAcc, ev)
         /\ tkCompleted' = ProcessEventCompleted(tkCompleted, ev)
         /\ tkOut' = tkOut \o ProcessEventStream(ev)
    /\ UNCHANGED <<tkHasManager, tkAgent, tkpc, tkLoops, tkParent, tkParent0, taskFrame>>

\* subagent_loop.act raises: `except Exception`, then the TaskResult
TaskChildRaise ==
    /\ tkpc = "running"
    /\ tkChild' = [tkChild EXCEPT !.raised = TRUE]
    /\ tkCompleted' = FALSE
    /\ tkAcc' = Append(tkAcc, "Subagent error")
    /\ tkOut' = Append(tkOut, TaskResultItem(TaskResponse(tkAcc', tkChild.messages), FALSE))
    /\ tkpc' = "result"
    /\ UNCHANGED <<tkHasManager, tkAgent, tkLoops, tkParent, tkParent0, taskFrame>>

\* subagent_loop.act ends: the TaskResult
TaskChildEnd ==
    /\ tkpc = "running"
    /\ tkOut' = Append(tkOut, TaskResultItem(TaskResponse(tkAcc, tkChild.messages), tkCompleted))
    /\ tkpc' = "result"
    /\ UNCHANGED <<tkHasManager, tkAgent, tkLoops, tkAcc, tkCompleted, tkChild,
                   tkParent, tkParent0, taskFrame>>

\* the parent's runner after Task.run: the tool message of the call and
\* tool_calls_succeeded, or tool_calls_failed after the ToolError
TaskRunnerRecord ==
    /\ tkpc \in {"result", "tool_error"}
    /\ tkParent' = [tkParent EXCEPT !.messages = Append(@, "tool"),
                                    !.succeeded = IF tkpc = "result" THEN @ + 1 ELSE @,
                                    !.failed = IF tkpc = "tool_error" THEN @ + 1 ELSE @]
    /\ tkpc' = "done"
    /\ UNCHANGED <<tkHasManager, tkAgent, tkLoops, tkOut, tkAcc, tkCompleted, tkChild,
                   tkParent0, taskFrame>>

TaskNext ==
    \/ TaskInvoke
    \/ TaskChildEvent
    \/ TaskChildRaise
    \/ TaskChildEnd
    \/ TaskRunnerRecord

SpecTask == TaskInit /\ [][TaskNext]_vars

\* ------------------------------------------------------------------ approval callback
\* AgentLoop.__init__: ToolRunner(tool_manager, auto_approve), no callback
CbInit ==
    /\ cbRunner = "none"
    /\ cbInstalled = "none"
    /\ cbAuto \in BOOLEAN
    /\ cbAgent = "default"
    /\ cbLast = [installed |-> "none", consulted |-> "none", verdict |-> "none"]
    /\ cbOps = 0
    /\ ParkedExcept("callback")

\* AgentLoop.set_approval_callback: tool_runner.set_approval_callback(callback)
SetApprovalCallback ==
    /\ cbOps >= 0 /\ cbOps < MaxCallbackOps
    /\ \E c \in {"cb1", "cb2"} :
         /\ cbRunner' = c
         /\ cbInstalled' = c
    /\ cbOps' = cbOps + 1
    /\ UNCHANGED <<cbAuto, cbAgent, cbLast, cbFrame>>

\* reload_with_initial_messages: self.tool_runner = ToolRunner(tool_manager,
\* auto_approve), whose approval_callback is the default None
CbReload ==
    /\ cbOps >= 0 /\ cbOps < MaxCallbackOps
    /\ cbRunner' = "none"
    /\ cbOps' = cbOps + 1
    /\ UNCHANGED <<cbInstalled, cbAuto, cbAgent, cbLast, cbFrame>>

\* switch_agent to another profile: switch_profile, then the reload
CbSwitchAgent ==
    /\ cbOps >= 0 /\ cbOps < MaxCallbackOps
    /\ \E name \in {"default", "plan"} :
         /\ name # cbAgent
         /\ cbAgent' = name
    /\ cbRunner' = "none"
    /\ cbOps' = cbOps + 1
    /\ UNCHANGED <<cbInstalled, cbAuto, cbLast, cbFrame>>

\* act reaches a call of a tool with permission ASK that is on no list: the
\* runner's _should_execute, the callback answering YES or NO when asked
CbAct ==
    /\ cbOps >= 0 /\ cbOps < MaxCallbackOps
    /\ \E response \in {"YES", "NO"} :
         LET d == ShouldExecute(cbAuto, "none", "ASK", cbRunner # "none", response)
         IN cbLast' = [installed |-> cbInstalled,
                       consulted |-> IF d.asked THEN cbRunner ELSE "none",
                       verdict |-> d.verdict]
    /\ cbOps' = cbOps + 1
    /\ UNCHANGED <<cbRunner, cbInstalled, cbAuto, cbAgent, cbFrame>>

CbNext ==
    \/ SetApprovalCallback
    \/ CbReload
    \/ CbSwitchAgent
    \/ CbAct

SpecCallback == CbInit /\ [][CbNext]_vars

\* ------------------------------------------------------------------ tool call extraction
\* the pieces of a content string: plain text, a complete
\* <function=name>...</function> block, or an unclosed <function= tag
IsFunctionBlock(piece) == piece \in {"<function=a></function>", "<function=b></function>"}
HasFunctionTag(content) ==
    \E i \in 1..Len(content) : IsFunctionBlock(content[i]) \/ content[i] = "<function=a>"

\* "no result" for the content: the extractor returns None
Unmodified == [changed |-> FALSE, content |-> <<>>]

\* APIToolCallExtractor.extract: the calls with a function, arguments that
\* are no JSON read as {}, the call's own id
ExtractAPI(msg) ==
    LET withFunction == SelectSeq(msg.tool_calls, LAMBDA tc : tc.hasFunction)
    IN [calls |-> [i \in 1..Len(withFunction) |->
                     [tool_name |-> withFunction[i].name,
                      raw_args |-> IF withFunction[i].arguments = "json" THEN "args" ELSE "{}",
                      call_id |-> [kind |-> "api", n |-> withFunction[i].id]]],
        modified |-> Unmodified, uuids |-> 0]

\* XMLToolCallExtractor.extract (strip_from_content=True): one call per
\* complete block, call_id = "xml_" + uuid4().hex[:12], the blocks removed
\* from the content; drawn stands for the values uuid4 returns
ExtractXML(msg, drawn) ==
    LET blocks == SelectSeq(msg.content, IsFunctionBlock)
    IN IF blocks = <<>> THEN [calls |-> <<>>, modified |-> Unmodified, uuids |-> 0]
       ELSE [calls |-> [i \in 1..Len(blocks) |->
                          [tool_name |-> blocks[i], raw_args |-> "args",
                           call_id |-> [kind |-> "xml", n |-> drawn + i]]],
             modified |-> [changed |-> TRUE,
                           content |-> SelectSeq(msg.content, LAMBDA c : ~IsFunctionBlock(c))],
             uuids |-> Len(blocks)]

\* AutoToolCallExtractor.extract: API when tool_calls is non-empty, else XML
\* when the content holds "<function="
ExtractAuto(msg, drawn) ==
    IF msg.tool_calls # <<>> THEN ExtractAPI(msg)
    ELSE IF HasFunctionTag(msg.content) THEN ExtractXML(msg, drawn)
    ELSE [calls |-> <<>>, modified |-> Unmodified, uuids |-> 0]

\* get_tool_call_extractor(mode).extract(message)
Extract(mode, msg, drawn) ==
    CASE mode = "xml" -> ExtractXML(msg, drawn)
      [] mode = "auto" -> ExtractAuto(msg, drawn)
      [] mode = "none" -> [calls |-> <<>>, modified |-> Unmodified, uuids |-> 0]
      [] OTHER -> ExtractAPI(msg)

\* API tool calls of a message: with or without function, arguments that
\* are JSON or not, an id or none (0)
ApiToolCalls ==
    {<<>>,
     <<[hasFunction |-> TRUE, name |-> "a", arguments |-> "json", id |-> 1]>>,
     <<[hasFunction |-> TRUE, name |-> "a", arguments |-> "bad", id |-> 0],
       [hasFunction |-> FALSE, name |-> "", arguments |-> "", id |-> 2]>>}

ContentPieces == {"text", "<function=a></function>", "<function=b></function>", "<function=a>"}

ParseInit ==
    /\ psMsg \in [content : UNION {[1..n -> ContentPieces] : n \in 0..MaxPieces},
                   tool_calls : ApiToolCalls]
    /\ psMode \in {"api", "xml", "auto", "none", "other"}
    /\ psUuid = 0
    /\ psRuns = <<>>
    /\ ParkedExcept("parse")

\* one extraction from the message, uuid4 returning any values
ParseExtract ==
    /\ Len(psRuns) < MaxExtractions
    /\ \E drawn \in 0..MaxUuid :
         LET r == Extract(psMode, psMsg, drawn)
         IN /\ r.uuids = 0 => drawn = 0
            /\ psRuns' = Append(psRuns, [calls |-> r.calls, modified |-> r.modified])
            /\ psUuid' = drawn
    /\ UNCHANGED <<psMsg, psMode, parseFrame>>

ParseNext == ParseExtract

SpecParse == ParseInit /\ [][ParseNext]_vars

\* ------------------------------------------------------------------ async_retry
\* how an invocation of the wrapped function may end: a result, an
\* httpx.HTTPStatusError with a status code, or another exception
RetryOutcomes ==
    {[kind |-> "result", code |-> 0], [kind |-> "other_error", code |-> 0]}
    \cup {[kind |-> "http_error", code |-> c] : c \in {400, 404, 429, 503}}

\* _is_retryable_http_error
IsRetryableHttpError(e) ==
    e.kind = "http_error" /\ e.code \in {408, 409, 425, 429, 500, 502, 503, 504}

\* a wrapper that retries after the last attempt as well
ShouldRetryAlways(attempt, tries, e) == IsRetryableHttpError(e)

\* `if attempt < tries - 1 and is_retryable(e)`
ShouldRetry(attempt, tries, e) == attempt < tries - 1 /\ IsRetryableHttpError(e)

\* 2^n
RECURSIVE Pow2(_)
Pow2(n) == IF n = 0 THEN 1 ELSE 2 * Pow2(n - 1)

\* current_delay = delay_seconds * backoff_factor**attempt + 0.05 * attempt
\* with the defaults 0.5 and 2.0, in units of 0.05 s
RetryDelay(attempt) == 10 * Pow2(attempt) + attempt

RetryInit ==
    /\ rtTries \in 0..MaxTries
    /\ rtAttempt = 0
    /\ rtLog = <<>>
    /\ rtSlept = 0
    /\ rtpc = "calling"
    /\ rtEnd = [kind |-> "none", code |-> 0]
    /\ ParkedExcept("retry")

\* one pass of `for attempt in range(tries)`: await func(...), return its
\* result, or raise its error, or go to sleep before the next attempt
RetryCall ==
    /\ rtpc = "calling" /\ rtAttempt < rtTries
    /\ \E o \in RetryOutcomes :
         /\ rtLog' = Append(rtLog, o)
         /\ IF o.kind = "result"
            THEN rtpc' = "returned" /\ rtEnd' = o
            ELSE IF ShouldRetry(rtAttempt, rtTries, o)
            THEN rtpc' = "sleeping" /\ rtEnd' = rtEnd
            ELSE rtpc' = "raised" /\ rtEnd' = o
    /\ UNCHANGED <<rtTries, rtAttempt, rtSlept, retryFrame>>

\* asyncio.sleep(current_delay) returns; continue
RetrySleep ==
    /\ rtpc = "sleeping"
    /\ rtSlept' = rtSlept + RetryDelay(rtAttempt)
    /\ rtAttempt' = rtAttempt + 1
    /\ rtpc' = "calling"
    /\ UNCHANGED <<rtTries, rtLog, rtEnd, retryFrame>>

\* the loop is over without return or raise: RuntimeError("Retries exhausted")
RetryExhausted ==
    /\ rtpc = "calling" /\ rtAttempt >= rtTries
    /\ rtpc' = "raised"
    /\ rtEnd' = [kind |-> "retries_exhausted", code |-> 0]
    /\ UNCHANGED <<rtTries, rtAttempt, rtLog, rtSlept, retryFrame>>

RetryNext == RetryCall \/ RetrySleep \/ RetryExhausted

SpecRetry == RetryInit /\ [][RetryNext]_vars /\ WF_vars(RetryNext)

\* ------------------------------------------------------------------ async_generator_retry
\* the wrapped generator yields the items 1, 2, ... in each run
GenInit ==
    /\ grTries \in 0..MaxGenTries
    /\ grAttempt = 0
    /\ grPos = 0
    /\ grOut = <<>>
    /\ grpc = "running"
    /\ grEnd = [kind |-> "none", code |-> 0]
    /\ ParkedExcept("genretry")

\* `async for item in func(...): yield item`: the next item of the attempt
\* goes to the consumer
GenYield ==
    /\ grpc = "running" /\ grAttempt < grTries /\ grPos < MaxItems
    /\ grOut' = Append(grOut, grPos + 1)
    /\ grPos' = grPos + 1
    /\ UNCHANGED <<grTries, grAttempt, grpc, grEnd, genFrame>>

\* the generator of the attempt is exhausted: return
GenReturn ==
    /\ grpc = "running" /\ grAttempt < grTries
    /\ grpc' = "returned"
    /\ UNCHANGED <<grTries, grAttempt, grPos, grOut, grEnd, genFrame>>

\* the generator of the attempt raises: sleep before the next attempt, or
\* raise the error
GenFail ==
    /\ grpc = "running" /\ grAttempt < grTries
    /\ \E e \in RetryOutcomes :
         /\ e.kind # "result"
         /\ IF ShouldRetry(grAttempt, grTries, e)
            THEN grpc' = "sleeping" /\ grEnd' = grEnd
            ELSE grpc' = "raised" /\ grEnd' = e
    /\ UNCHANGED <<grTries, grAttempt, grPos, grOut, genFrame>>

\* asyncio.sleep(current_delay) returns; continue with a new func(...)
GenSleep ==
    /\ grpc = "sleeping"
    /\ grAttempt' = grAttempt + 1
    /\ grPos' = 0
    /\ grpc' = "running"
    /\ UNCHANGED <<grTries, grOut, grEnd, genFrame>>

\* the loop is over without return or raise: RuntimeError("Retries exhausted")
GenExhausted ==
    /\ grpc = "running" /\ grAttempt >= grTries
    /\ grpc' = "raised"
    /\ grEnd' = [kind |-> "retries_exhausted", code |-> 0]
    /\ UNCHANGED <<grTries, grAttempt, grPos, grOut, genFrame>>

GenNext == GenYield \/ GenReturn \/ GenFail \/ GenSleep \/ GenExhausted

SpecGenRetry == GenInit /\ [][GenNext]_vars


\* ------------------------------------------------------------------ properties
Range(seq) == {seq[i] : i \in 1..Len(seq)}

\* the ways an act ends
ActEnds == {"normal", "stop", "user_cancel", "cancel_tool", "cancel_approval",
            "exception"}

\* every assistant message with k >= 1 tool_calls is immediately followed by
\* k tool messages carrying the ids of its tool_calls, in the same order
ToolResponsesInOrder(msgs) ==
    \A i \in 1..Len(msgs) :
      (msgs[i].role = "assistant" /\ msgs[i].calls # <<>>) =>
        /\ i + Len(msgs[i].calls) <= Len(msgs)
        /\ \A j \in 1..Len(msgs[i].calls) :
             /\ msgs[i + j].role = "tool"
             /\ msgs[i + j].cid = msgs[i].calls[j]

\* C1: after clean() returns, every assistant message carrying k >= 1
\* tool_calls is immediately followed by k tool messages whose tool_call_ids
\* are the ids of its tool_calls in the same order, for every history the
\* loop and the runner produce (mixed failed and resolved calls, interrupted
\* rounds)
C1_ToolResponsesFollowCalls ==
    cleanCtx # "none" => ToolResponsesInOrder(cleanOut)

\* C2: when act has ended, every ToolCallEvent of its stream was followed by
\* exactly one ToolResultEvent with the same tool_call_id, with only
\* ToolStreamEvents of that call in between, whatever path the call took
C2_CallEventGetsOneResult ==
    pc = "idle" =>
      \A p \in 1..Len(events) :
        events[p].type = "tool_call" =>
          /\ Cardinality({q \in 1..Len(events) :
                            /\ events[q].type = "tool_result"
                            /\ events[q].cid = events[p].cid}) = 1
          /\ \E q \in (p + 1)..Len(events) :
               /\ events[q].type = "tool_result"
               /\ events[q].cid = events[p].cid
               /\ \A r \in (p + 1)..(q - 1) :
                    /\ events[r].type = "tool_stream"
                    /\ events[r].cid = events[p].cid

\* C3: with an observer installed and no reload, when an act has ended (its
\* last flush done) every message of the history has been passed to the
\* observer exactly once, and the observer received messages in append order
\* (message ids grow in append order); stated for the messages the history
\* still holds, which covers those appended after a compaction or a
\* clear_history
C3_ObserverGetsEachMessageOnce ==
    (hasObserver /\ ~reloaded /\ pc = "idle" /\ lastEnd \in ActEnds) =>
      /\ \A i \in 1..Len(messages) :
           Cardinality({j \in 1..Len(observed) : observed[j] = messages[i].mid}) = 1
      /\ \A j1, j2 \in 1..Len(observed) : j1 < j2 => observed[j1] < observed[j2]

\* C4: in every reachable state messages[0] has role system and no other
\* message of the list has role system
C4_SingleSystemMessage ==
    /\ Len(messages) >= 1
    /\ messages[1].role = "system"
    /\ \A i \in 2..Len(messages) : messages[i].role # "system"

\* C4 witness: the history holds a conversation and the system message has been
\* replaced by a reload
C4_Witness == reloaded /\ pc = "idle" /\ Len(messages) >= 3

IsTurnText(e) == e.type \in {"assistant", "reasoning"}

\* one step of the recogniser of the grammar UserMessage, then per turn one or
\* more Reasoning/Assistant events followed by groups (ToolCallEvent,
\* ToolStreamEvent*, ToolResultEvent); q.s = "reject" once an event does not
\* fit; compaction events, which the grammar does not name, are passed over
GrammarStep(q, e) ==
    IF e.type \in {"compact_start", "compact_end"} /\ q.s # "start" THEN q
    ELSE IF q.s = "start"
    THEN IF e.type = "user" THEN [s |-> "turn", c |-> 0] ELSE [s |-> "reject", c |-> 0]
    ELSE IF q.s = "turn"
    THEN IF IsTurnText(e) THEN [s |-> "text", c |-> 0] ELSE [s |-> "reject", c |-> 0]
    ELSE IF q.s = "text"
    THEN IF IsTurnText(e) THEN [s |-> "text", c |-> 0]
         ELSE IF e.type = "tool_call" THEN [s |-> "group", c |-> e.cid]
         ELSE [s |-> "reject", c |-> 0]
    ELSE IF q.s = "group"
    THEN IF e.type = "tool_stream" /\ e.cid = q.c THEN q
         ELSE IF e.type = "tool_result" /\ e.cid = q.c THEN [s |-> "groups", c |-> 0]
         ELSE [s |-> "reject", c |-> 0]
    ELSE IF q.s = "groups"
    THEN IF e.type = "tool_call" THEN [s |-> "group", c |-> e.cid]
         ELSE IF IsTurnText(e) THEN [s |-> "text", c |-> 0]
         ELSE [s |-> "reject", c |-> 0]
    ELSE [s |-> "reject", c |-> 0]

RECURSIVE GrammarRun(_, _, _)
GrammarRun(evs, i, q) ==
    IF q.s = "reject" THEN FALSE
    ELSE IF i > Len(evs) THEN TRUE
    ELSE GrammarRun(evs, i + 1, GrammarStep(q, evs[i]))

EmittedStep(q, e) ==
    IF q.s = "start"
    THEN IF e.type = "user" THEN [s |-> "open", c |-> 0] ELSE [s |-> "reject", c |-> 0]
    ELSE IF q.s = "open"
    THEN IF IsTurnText(e) THEN q
         ELSE IF e.type = "tool_result" /\ e.tag = "error" THEN q
         ELSE IF e.type = "tool_call" THEN [s |-> "group", c |-> e.cid]
         ELSE IF e.type = "compact_start" THEN [s |-> "compacting", c |-> 0]
         ELSE [s |-> "reject", c |-> 0]
    ELSE IF q.s = "group"
    THEN IF e.type = "tool_stream" /\ e.cid = q.c THEN q
         ELSE IF e.type = "tool_result" /\ e.cid = q.c THEN [s |-> "open", c |-> 0]
         ELSE [s |-> "reject", c |-> 0]
    ELSE IF q.s = "compacting"
    THEN IF e.type = "compact_end" THEN [s |-> "open", c |-> 0]
         ELSE [s |-> "reject", c |-> 0]
    ELSE [s |-> "reject", c |-> 0]

RECURSIVE EmittedRun(_, _, _)
EmittedRun(evs, i, q) ==
    IF q.s = "reject" THEN FALSE
    ELSE IF i > Len(evs) THEN TRUE
    ELSE EmittedRun(evs, i + 1, EmittedStep(q, evs[i]))

RunnerPcs == {"call", "decide", "invoke", "append", "append_raise", "post_turn"}

HasToolMessage(cid) ==
    \E m \in 1..Len(messages) : messages[m].role = "tool" /\ messages[m].cid = cid

\* C6: the resolved calls of one assistant message run one at a time in
\* tool_calls order: when the ToolCallEvent of a call has been emitted, every
\* earlier resolved call of the message has its ToolResultEvent before it and
\* its tool message in the history; at most one call has a ToolCallEvent
\* without ToolResultEvent; the tool messages of resolved calls are in call order
C6_SerialToolCalls ==
    pc \in RunnerPcs =>
      /\ \A j \in 1..Len(resolvedCalls) : \A p \in 1..Len(events) :
           events[p] = ToolCallEvent(resolvedCalls[j]) =>
             \A i \in 1..(j - 1) :
               /\ \E q \in 1..(p - 1) :
                    /\ events[q].type = "tool_result"
                    /\ events[q].cid = resolvedCalls[i]
               /\ HasToolMessage(resolvedCalls[i])
      /\ Cardinality({j \in 1..Len(resolvedCalls) :
            /\ ToolCallEvent(resolvedCalls[j]) \in Range(events)
            /\ \A q \in 1..Len(events) :
                 ~(events[q].type = "tool_result" /\ events[q].cid = resolvedCalls[j])})
           <= 1
      /\ \A m1, m2 \in 1..Len(messages) : \A i, j \in 1..Len(resolvedCalls) :
           (/\ m1 < m2
            /\ messages[m1].role = "tool" /\ messages[m1].cid = resolvedCalls[i]
            /\ messages[m2].role = "tool" /\ messages[m2].cid = resolvedCalls[j])
           => i < j

\* C6 witness: the ToolCallEvent of the second resolved call of a message has
\* just been emitted
C6_Witness ==
    /\ pc = "decide" /\ ridx = 2
    /\ events[Len(events)] = ToolCallEvent(resolvedCalls[2])

\* C7: when act has ended by a cancellation inside invoke, the last event is
\* the ToolResultEvent with the <user_cancellation> text for that call (no
\* later tool call, no further LLM turn), the last message is the tool message
\* of that call, the session has been saved with the whole history, and the
\* observer has been given every message of the history
C7_CancelDuringInvoke ==
    (pc = "idle" /\ lastEnd = "cancel_tool") =>
      LET e == events[Len(events)]
          m == messages[Len(messages)]
      IN /\ e.type = "tool_result" /\ e.tag = "cancel"
         /\ m.role = "tool" /\ m.cid = e.cid
         /\ m.content = InterruptedText
         /\ m.content[1] = "<user_cancellation>"
         /\ saved = Mids(messages)
         /\ hasObserver => \A i \in 1..Len(messages) :
                              messages[i].mid \in Range(observed)

\* C8 as claimed: the clean() at the start of the act that follows an act
\* cancelled inside a tool leaves the message list unchanged
C8_CleanChangesNothing ==
    cleanCtx = "cancel_tool" => cleanOut = cleanIn

LastAssistant(msgs) ==
    CHOOSE a \in 1..Len(msgs) :
      /\ msgs[a].role = "assistant"
      /\ \A b \in (a + 1)..Len(msgs) : msgs[b].role # "assistant"

\* C8 amended: that clean() keeps every message in place, adds a synthetic
\* "no response" tool message for each tool call of the interrupted assistant
\* message beyond the responses present (taken by position in tool_calls), and
\* appends one assistant message "Understood."
C8_CleanCompletesInterruptedRound ==
    cleanCtx = "cancel_tool" =>
      LET n == Len(cleanIn)
          a == LastAssistant(cleanIn)
          answered == n - a
          missing == Len(cleanIn[a].calls) - answered
      IN /\ missing >= 0
         /\ Len(cleanOut) = n + missing + 1
         /\ SubSeq(cleanOut, 1, n) = cleanIn
         /\ \A j \in 1..missing :
              /\ cleanOut[n + j].role = "tool"
              /\ cleanOut[n + j].content = NoResponseText
              /\ cleanOut[n + j].cid = cleanIn[a].calls[answered + j]
         /\ cleanOut[n + missing + 1].role = "assistant"
         /\ cleanOut[n + missing + 1].content = <<"Understood.">>
         /\ cleanOut[n + missing + 1].calls = <<>>

\* C8 witness: the act after a cancelled one has started, and its clean() had a
\* tool response to add
C8_Witness ==
    /\ cleanCtx = "cancel_tool" /\ pc = "before_turn"
    /\ Len(cleanOut) = Len(cleanIn) + 2

\* C9: clean() is idempotent: on every history, a second clean() changes nothing
C9_CleanIdempotent == hpc = "twice" => hTwice = hOnce

\* C9 witness: clean() ran twice on a history the first run had to repair by
\* inserting a tool response
C9_Witness == hpc = "twice" /\ Len(hOnce) >= Len(hIn) + 2

RECURSIVE JoinedUpTo(_, _)
JoinedUpTo(texts, n) ==
    IF n = 1 THEN texts[1]
    ELSE JoinedUpTo(texts, n - 1) \o <<"\n\n">> \o texts[n]

C11_AfterTurnNeverInjects ==
    mwpc = "after_done" =>
      LET n == Len(mwAnswers)
          S == {i \in 1..n : mwAnswers[i].action # "CONTINUE"}
      IN /\ ~mwRaised => mwResult.action \in {"CONTINUE", "STOP", "COMPACT"}
         /\ IF S = {}
            THEN ~mwRaised /\ mwResult = Continue /\ mwInvoked = n
            ELSE LET f == CHOOSE i \in S : \A j \in S : i <= j
                 IN /\ mwInvoked = f
                    /\ mwRaised <=> mwAnswers[f].action = "INJECT_MESSAGE"
                    /\ ~mwRaised => mwResult = mwAnswers[f]

\* C11 witness: the second middleware answered INJECT_MESSAGE after the turn
\* and run_after_turn raised
C11_Witness ==
    /\ mwpc = "after_done" /\ mwRaised /\ mwInvoked = 2
    /\ mwAnswers[2].action = "INJECT_MESSAGE"

\* an act that ended on a STOP verdict emitted one stop event, as its last
\* event
StopEventEndsAct ==
    (pc = "idle" /\ lastEnd = "stop") =>
      /\ events # <<>> /\ events[Len(events)] = StopEvent
      /\ Cardinality({p \in 1..Len(events) : events[p] = StopEvent}) = 1

\* once the stop event is emitted the act is over: no LLM turn and no tool
\* invocation follows it
StopEventIsTerminal ==
    [][(events' # events /\ events' # <<>> /\ events'[Len(events')] = StopEvent)
         => (pc' = "idle" /\ lastEnd' = "stop" /\ llmTotal' = llmTotal
             /\ messages' = messages)]_vars

\* C12: when the pipeline answers STOP, act emits exactly one stop
\* AssistantEvent whose content is the reason wrapped in the stop-event tag
\* defined by kin_code.core.utils, and that event is the last of the act
C12_StopEventTaggedAndLast ==
    (pc = "idle" /\ lastEnd = "stop") => (StopEventEndsAct /\ StopEventTagBound)

C14_DecisionOrder ==
    dcpc = "done" =>
      LET i == dcIn
          unlisted == ~i.auto /\ i.listed = "none"
          ask == unlisted /\ i.perm = "ASK"
      IN /\ i.auto => dcOut.verdict = "EXECUTE"
         /\ (~i.auto /\ i.listed = "ALWAYS") => dcOut.verdict = "EXECUTE"
         /\ (~i.auto /\ i.listed = "NEVER") =>
              dcOut.verdict = "SKIP" /\ dcOut.feedback = "denylist"
         /\ (unlisted /\ i.perm = "ALWAYS") => dcOut.verdict = "EXECUTE"
         /\ (unlisted /\ i.perm = "NEVER") =>
              dcOut.verdict = "SKIP" /\ dcOut.feedback = "disabled"
         /\ (ask /\ ~i.hasCallback) => dcOut.verdict = "SKIP"
         /\ (ask /\ i.hasCallback /\ i.response = "YES") => dcOut.verdict = "EXECUTE"
         /\ (ask /\ i.hasCallback /\ i.response = "NO") => dcOut.verdict = "SKIP"
         /\ dcOut.asked <=> (ask /\ i.hasCallback)

\* C14 witness: the denylist skipped a call whose configured permission is
\* ALWAYS, without asking the callback that would have said YES
C14_Witness ==
    /\ dcpc = "done" /\ dcOut.verdict = "SKIP" /\ ~dcOut.asked
    /\ ~dcIn.auto /\ dcIn.listed = "NEVER" /\ dcIn.perm = "ALWAYS"
    /\ dcIn.hasCallback /\ dcIn.response = "YES"

\* agreed + rejected + failed
CounterSum == rsStats.agreed + rsStats.rejected + rsStats.failed

\* only failed parses, skips, successes, ToolErrors and ToolPermissionErrors
\* have happened so far
OnlyListedOutcomes ==
    rsSeen.lookups = 0 /\ rsSeen.cancelled = 0 /\ rsSeen.unhandled = 0

\* C15 as claimed: between tool calls, for any mix of failed parses, skips,
\* successes, ToolErrors and ToolPermissionErrors, agreed + rejected + failed
\* is the number of ToolResultEvents emitted minus the skipped ones
C15_CountersMatchUnskippedResults ==
    (rspc = "between" /\ OnlyListedOutcomes) =>
      CounterSum = rsSeen.results - rsSeen.skipped

\* C15: between tool calls agreed + rejected + failed is the number of all
\* ToolResultEvents emitted (the skipped ones included, each counted as
\* rejected) plus the number of ToolError results (each counted as agreed
\* and as failed), less the lookup failures (which touch no counter), plus
\* the invocations that ended in an unhandled exception (agreed, no event);
\* and succeeded never exceeds agreed
C15_CountersMatchResults ==
    /\ CounterSum = rsSeen.results + rsSeen.toolErrors - rsSeen.lookups
                      + rsSeen.unhandled
    /\ OnlyListedOutcomes => CounterSum = rsSeen.results + rsSeen.toolErrors
    /\ rsStats.succeeded <= rsStats.agreed

\* C15 witness: a skip, a ToolError and a failed parse have all been counted
C15_Witness ==
    /\ rspc = "between" /\ OnlyListedOutcomes
    /\ rsSeen.skipped >= 1 /\ rsSeen.toolErrors >= 1 /\ rsStats.failed >= 2

\* C16: after compact() returns, the history is the system message that
\* was messages[0] followed by one user message holding the summary the LLM
\* returned, stats.context_tokens is the backend's count for that history, the
\* session id differs from the one before, and every middleware has been reset
\* with reason COMPACT
C16_CompactPostcondition ==
    mtEnd = "compact_ok" =>
      /\ Len(mtMsgs) = 2
      /\ mtMsgs[1] = mtBefore.system /\ mtMsgs[1].role = "system"
      /\ mtMsgs[2].role = "user" /\ mtMsgs[2].content = mtSummary
      /\ mtMsgs[2].calls = <<>>
      /\ mtStats.contextTokens = CountTokens(mtMsgs)
      /\ mtSession.loop # mtBefore.session
      /\ \A i \in 1..NumMw : mtReset[i] = "COMPACT"

\* C16 witness: a history with an unanswered tool call was compacted to a
\* summary whose token count differs from the usage of the summary call
C16_Witness ==
    /\ mtEnd = "compact_ok" /\ mtSummary = <<"summary">>
    /\ mtStats.contextTokens # 5 /\ mtStats.contextTokens # 7
    /\ mtStats.sessionTokens > 9

\* C17: after clear_history() the history is only the system message that
\* was messages[0], the step, token and tool call counters are zero, prices
\* and max_context_window are those of the configuration, every middleware
\* has been reset with reason STOP (ContextWarning may warn again), and the
\* session id is new and is the one the logger and the LLM client use
C17_ClearHistoryPostcondition ==
    mtEnd = "cleared" =>
      /\ mtMsgs = <<mtBefore.system>> /\ mtMsgs[1].role = "system"
      /\ mtStats.steps = 0 /\ mtStats.sessionTokens = 0
      /\ mtStats.contextTokens = 0 /\ mtStats.toolCalls = 0
      /\ mtStats.inputPrice = mtConfig.inputPrice
      /\ mtStats.outputPrice = mtConfig.outputPrice
      /\ mtStats.maxContext = mtConfig.maxContext
      /\ \A i \in 1..NumMw : mtReset[i] = "STOP"
      /\ ~mtWarned
      /\ mtSession.loop # mtBefore.session
      /\ mtSession.client = mtSession.loop /\ mtSession.logger = mtSession.loop

\* C17 witness: a used loop (steps, tokens and tool calls counted, a warning
\* given, prices of another configuration) was cleared
C17_Witness ==
    /\ mtEnd = "cleared" /\ mtStats.inputPrice = 2
    /\ mtBefore.system = mtMsgs[1] /\ mtSession.loop = 1

\* a completed streaming turn appended exactly one assistant message, the
\* aggregate of its chunks, after every event of the turn
StreamAppendsOnceAtEnd ==
    /\ stpc = "streaming" => stAppended = <<>>
    /\ stpc = "done" =>
         /\ Len(stAppended) = 1
         /\ stAppended[1].after = Len(stEvents)
         /\ stAppended[1].message = stAgg

\* C18: a completed streaming turn appends exactly one assistant message,
\* after all its Assistant/Reasoning events, and when no chunk carried
\* non-whitespace content it emitted no AssistantEvent
C18_StreamOneAppendNoBlankEvent ==
    /\ StreamAppendsOnceAtEnd
    /\ (stpc = "done" /\ ~StripNonEmpty(stAgg.content)) =>
         \A i \in 1..Len(stEvents) : stEvents[i].type # "assistant"

\* C19: in non-streaming mode every LLM turn emits exactly one
\* AssistantEvent, also when the returned content is empty (a turn of tool
\* calls only)
C19_NonStreamingTurnEmitsAssistant ==
    [][(pc = "llm" /\ ~enableStreaming /\ llmTotal' = llmTotal + 1)
         => events' = Append(events, AssistantEvent)]_vars

\* the text of the tool message that records a failure event
FailureText(tag) ==
    CASE tag = "error" -> ErrorText
      [] tag = "skipped" -> FeedbackText
      [] tag = "skipped_cancel" -> SkippedText
      [] tag = "cancel" -> InterruptedText

\* the failure events of the running or last act: ToolResultEvents that
\* report an error, a skip or a cancellation
IsFailureEvent(e) == e.type = "tool_result" /\ e.tag # "ok"

\* every failure event has its tool message in the history, carrying the
\* event's call id and starting with its text (a middleware may inject text
\* after it); the message of the last event may be the very next step. Only while the history of the act is still there: not after a
\* compaction, clear_history or reload.
ToolFailuresRecorded ==
    lastEnd \in ActEnds \cup {"running"} =>
      \A p \in 1..Len(events) :
        (/\ IsFailureEvent(events[p])
         /\ \A q \in (p + 1)..Len(events) : events[q] # CompactStartEvent) =>
          \/ \E m \in 1..Len(messages) :
               /\ messages[m].role = "tool"
               /\ messages[m].cid = events[p].cid
               /\ Len(messages[m].content) >= Len(FailureText(events[p].tag))
               /\ SubSeq(messages[m].content, 1, Len(FailureText(events[p].tag)))
                    = FailureText(events[p].tag)
          \/ p = Len(events) /\ pc \in {"failed_append", "append", "append_raise"}

\* the step that emits the stop event appends a message to the history
StopEventRecorded ==
    [][events' = Append(events, StopEvent) => Len(messages') > Len(messages)]_vars

\* the step that emits the stop event leaves the history as it is
StopEventNotRecorded ==
    [][events' = Append(events, StopEvent) => messages' = messages]_vars

\* C20 as claimed: every failure handled inside act, the middleware STOP
\* included, produces an event and a message appended to the history
C20_EveryFailureRecorded == []ToolFailuresRecorded /\ StopEventRecorded

\* C20: every failure the tool runner handles (failed call, lookup failure,
\* ToolError, ToolPermissionError, skip, cancellation inside a tool) produces
\* a ToolResultEvent and a tool message with the same call id; a middleware
\* STOP produces its event and no message
C20_ToolFailuresRecorded == []ToolFailuresRecorded /\ StopEventNotRecorded

\* C20 witness: a turn in which a failed call and a skipped call were both
\* answered, each with its event and its tool message
C20_Witness ==
    /\ pc = "post_turn" /\ lastEnd = "running"
    /\ \E p, q \in 1..Len(events) :
         /\ events[p].type = "tool_result" /\ events[p].tag = "error"
         /\ HasToolMessage(events[p].cid)
         /\ events[q].type = "tool_result" /\ events[q].tag = "skipped"
         /\ HasToolMessage(events[q].cid)

\* C21: whatever ends a tool's invocation (a result, ToolError,
\* ToolPermissionError, a cancellation or any other exception), the runner
\* emits a ToolResultEvent for the call and goes on to append its tool
\* message: an invocation never ends the act without event and message
C21_InvokeFailureHandledLikeToolError ==
    [][(pc = "invoke" /\ pc' # "invoke")
         => /\ events' = Append(events, events'[Len(events')])
            /\ events'[Len(events')].type = "tool_result"
            /\ events'[Len(events')].cid = resolvedCalls[ridx]
            /\ pc' # "idle"]_vars

\* C22: ContextWarningMiddleware injects its warning at most once between
\* two reset(STOP): a reset with reason COMPACT leaves the fired flag set, so
\* crossing the threshold again after a compaction injects nothing
C22_WarnsOncePerStop == mtInjected <= 1

\* C23: Task.run raises ToolError before it constructs a subagent loop and
\* before it yields anything when the context has no agent_manager, the
\* agent is unknown or its type is not SUBAGENT; every AgentLoop it
\* constructs is for a profile of type SUBAGENT
C23_TaskRejectsBeforeSpawn ==
    /\ (tkpc # "start" /\ tkpc # "parked"
          /\ (~tkHasManager \/ AgentTypeOf(tkAgent) # "subagent")) =>
         (tkpc \in {"tool_error", "done"} /\ tkLoops = <<>> /\ tkOut = <<>>)
    /\ \A i \in 1..Len(tkLoops) : tkLoops[i] = "subagent"

\* C23 witness: a call naming the primary agent "default", with an
\* agent_manager, was rejected
C23_Witness ==
    tkpc = "tool_error" /\ tkHasManager /\ tkAgent = "default"

\* C24: when the subagent's act raised, Task.run yielded exactly one
\* TaskResult, with completed=false and a response that contains the text
\* of the error, whatever had been accumulated before
C24_SubagentErrorReported ==
    (tkpc \in {"result", "done"} /\ tkChild.raised) =>
      /\ Cardinality({i \in 1..Len(tkOut) : tkOut[i].item = "result"}) = 1
      /\ LET r == tkOut[Len(tkOut)]
         IN /\ r.item = "result" /\ ~r.completed
            /\ \E i \in 1..Len(r.response) : r.response[i] = "Subagent error"

\* C27: running the Task tool changes the parent loop only through the
\* parent's runner: one tool message for the call and the agreed, succeeded
\* or failed counter; the subagent's messages, steps and tokens are its own
C27_TaskLeavesParentAlone ==
    /\ tkParent.steps = tkParent0.steps /\ tkParent.tokens = tkParent0.tokens
    /\ tkpc \notin {"done", "parked"} => tkParent.messages = tkParent0.messages
    /\ tkpc = "done" => tkParent.messages = Append(tkParent0.messages, "tool")
    /\ tkpc \notin {"start", "parked"} => tkParent.agreed = tkParent0.agreed + 1
    /\ tkParent.succeeded + tkParent.failed
         = tkParent0.succeeded + tkParent0.failed + (IF tkpc = "done" THEN 1 ELSE 0)

\* C27 witness: a subagent that took two turns and ran a tool has finished
\* and the parent's runner has recorded the call
C27_Witness ==
    /\ tkpc = "done" /\ tkChild.steps >= 3 /\ tkChild.toolCalls >= 1
    /\ tkParent.succeeded = 1

\* C25: extracting tool calls twice from the same assistant message yields
\* the same ParsedToolCalls (tool name, raw arguments, call id) and the same
\* cleaned content, for every extractor
C25_ExtractionRepeatable ==
    \A i, j \in 1..Len(psRuns) : psRuns[i] = psRuns[j]

\* the wrapped function was invoked at most tries times, re-invoked only
\* after retryable errors and only while attempts remained; a result is the
\* first success, an error is that of the last invocation, raised at once
\* when it is not retryable and after tries invocations otherwise
RetryBounded ==
    /\ Len(rtLog) <= rtTries
    /\ \A i \in 1..(Len(rtLog) - 1) : IsRetryableHttpError(rtLog[i]) /\ i < rtTries
    /\ rtpc = "returned" =>
         rtEnd.kind = "result" /\ rtLog[Len(rtLog)] = rtEnd
    /\ (rtpc = "raised" /\ rtTries > 0) =>
         /\ rtLog # <<>> /\ rtLog[Len(rtLog)] = rtEnd /\ rtEnd.kind # "result"
         /\ ~IsRetryableHttpError(rtEnd) \/ Len(rtLog) = rtTries
    /\ (rtpc = "raised" /\ rtTries = 0) => rtLog = <<>>
    /\ rtpc \in {"calling", "sleeping"} =>
         \A i \in 1..Len(rtLog) : IsRetryableHttpError(rtLog[i])

\* C26: async_retry(tries=n) invokes the function at most n times, retries
\* only after retryable errors while attempts remain, returns the first
\* result, raises a non-retryable error at once and the last error after n
\* retryable failures; the call always ends with a result or an error
C26_RetryBoundedAndTerminates ==
    []RetryBounded /\ <>(rtpc \in {"returned", "raised"})

\* C26 witness: every one of the MaxTries attempts failed with a retryable
\* error and the last error was raised
C26_Witness ==
    /\ rtpc = "raised" /\ Len(rtLog) = MaxTries
    /\ IsRetryableHttpError(rtEnd) /\ rtSlept > 0


\* ------------------------------------------------------------------ C28
\* the step that leaves the point after an LLM turn
LeavesPostTurn == pc = "post_turn" /\ pc' # "post_turn"

\* after a turn without tool calls the act is over once the after-turn
\* middleware has been handled
NoToolTurnEndsAct ==
    [][(LeavesPostTurn /\ ShouldBreakLoop(messages)) => pc' = "idle"]_vars

\* after a turn that ran tools no after-turn verdict is handled: the act
\* either returns for a user cancellation or goes back to run_before_turn
\* with events and history as they were
ToolTurnSkipsAfterTurn ==
    [][(LeavesPostTurn /\ ~ShouldBreakLoop(messages)) =>
         \/ pc' = "idle" /\ lastEnd' = "user_cancel"
         \/ pc' = "before_turn" /\ events' = events /\ messages' = messages]_vars

\* C28: run_after_turn is invoked exactly for the LLM turns without tool
\* calls, after which the loop terminates; after a turn that ran tools the
\* loop goes back to run_before_turn without invoking run_after_turn
C28_AfterTurnOnlyWithoutTools == NoToolTurnEndsAct /\ ToolTurnSkipsAfterTurn

\* ------------------------------------------------------------------ C29
\* the step in which a before-turn INJECT_MESSAGE verdict is handled: the
\* only step from before_turn to the LLM call that is a deviation and yields
\* no event
HandlesInject ==
    pc = "before_turn" /\ pc' = "llm" /\ devs' = devs + 1 /\ events' = events

\* the texts the pipeline may inject
InjectedTexts ==
    {RunBeforeTurn(a).result.message : a \in
       {b \in LoopAnswerVectors : RunBeforeTurn(b).result.action = "INJECT_MESSAGE"}}

\* new differs from old in the content of the last message only, which has
\* text appended after a blank line, or is text when it was empty
InjectFrame(old, new, text) ==
    /\ Len(new) = Len(old) /\ Len(old) > 0
    /\ \A i \in 1..(Len(old) - 1) : new[i] = old[i]
    /\ [new[Len(new)] EXCEPT !.content = old[Len(old)].content] = old[Len(old)]
    /\ new[Len(new)].content =
         IF old[Len(old)].content # <<>>
         THEN old[Len(old)].content \o <<"\n\n">> \o text
         ELSE text

\* the history with the content of its last message emptied
WithEmptyLast(msgs) == [msgs EXCEPT ![Len(msgs)].content = <<>>]

RoundCalls(msgs) ==
    LET as == {i \in 1..Len(msgs) : msgs[i].role = "assistant"}
        last == CHOOSE i \in as : \A j \in as : j <= i
    IN IF as = {} THEN {}
       ELSE {msgs[last].calls[k] : k \in 1..Len(msgs[last].calls)}

\* some result event of the round is a skip carrying the cancellation tag
RoundHasCancelSkip ==
    \E p \in 1..Len(events) :
      /\ IsUserCancellationEvent(events[p])
      /\ events[p].cid \in RoundCalls(messages)

\* every call of the round has its result event and its tool message
RoundProcessed ==
    \A c \in RoundCalls(messages) :
      /\ \E p \in 1..Len(events) :
           events[p].type = "tool_result" /\ events[p].cid = c
      /\ \E i \in 1..Len(messages) :
           messages[i].role = "tool" /\ messages[i].cid = c

\* the act returns right after the round, with no further event
ReturnsAfterRound ==
    pc' = "idle" /\ lastEnd' = "user_cancel" /\ events' = events
      /\ llmTotal' = llmTotal

\* C30: an act ends early after a tool round (no further LLM call, no
\* after_turn middleware) if and only if some ToolResultEvent of that round
\* was skipped with a skip_reason carrying the <user_cancellation> tag; the
\* remaining calls of the assistant message are processed first, and a skip
\* with feedback text does not end the act
C30_CancelSkipEndsActAfterRound ==
    [][(LeavesPostTurn /\ ~ShouldBreakLoop(messages)) =>
         /\ ReturnsAfterRound <=> RoundHasCancelSkip
         /\ RoundProcessed]_vars

\* the act returned after a round in which the first call was rejected
\* without feedback and a later call of the same message still got its result
C30_Witness ==
    /\ pc = "idle" /\ lastEnd = "user_cancel"
    /\ \E p, q \in 1..Len(events) :
         /\ p < q
         /\ IsUserCancellationEvent(events[p])
         /\ events[q].type = "tool_result"
         /\ {events[p].cid, events[q].cid} \subseteq RoundCalls(messages)

\* a round with a skip that carries feedback, after which the act went on
C30_FeedbackWitness ==
    /\ pc = "before_turn"
    /\ \E p \in 1..Len(events) :
         /\ events[p].type = "tool_result" /\ events[p].tag = "skipped"
         /\ events[p].cid \in RoundCalls(messages)


\* ------------------------------------------------------------------ C31
\* the contents of the assistant events the subagent yielded after its last
\* ToolCallEvent, concatenated
RECURSIVE ContentsFrom(_, _)
ContentsFrom(log, i) ==
    IF i > Len(log) THEN <<>>
    ELSE (IF log[i].type = "assistant" THEN log[i].content ELSE <<>>)
           \o ContentsFrom(log, i + 1)

AfterLastToolCall(log) ==
    LET calls == {i \in 1..Len(log) : log[i].type = "tool_call"}
        from == IF calls = {} THEN 1
                ELSE (CHOOSE i \in calls : \A j \in calls : j <= i) + 1
    IN ContentsFrom(log, from)

\* a text that may be reported: neither blank nor a malformed tool call
Reportable(text) == ~IsBlankText(text) /\ ~IsToolCallContent(text)

\* the most recent reportable assistant message of the history, or the
\* sentinel when there is none
LatestReportable(msgs) ==
    LET good == {i \in 1..Len(msgs) :
                   msgs[i].role = "assistant" /\ Reportable(msgs[i].content)}
    IN IF good = {} THEN <<"no summary">>
       ELSE msgs[CHOOSE i \in good : \A j \in good : j <= i].content

\* the TaskResult that Task.run yielded
TaskResultOf == tkOut[Len(tkOut)]

\* Task.run spawned a subagent and has yielded its TaskResult
TaskReported == tkpc \in {"result", "done"} /\ tkLoops # <<>>

\* the response is candidate when that is reportable, else the fallback
ResponseFrom(candidate) ==
    /\ TaskResultOf.item = "result"
    /\ TaskResultOf.response =
         IF Reportable(candidate) THEN candidate
         ELSE LatestReportable(tkChild.messages)
    /\ Reportable(TaskResultOf.response)

\* C31 as claimed: the response is the concatenation of the AssistantEvent
\* contents received after the last ToolCallEvent, replaced when blank or
\* malformed by the latest reportable assistant message or the sentinel; it
\* is never blank and never matches the malformed-tool-call pattern
C31_ResponseIsFinalAssistantText ==
    TaskReported => ResponseFrom(AfterLastToolCall(tkChild.log))

\* C31: the same, with the candidate extended by the note
\* "[Subagent error: ...]" when the subagent's act raised
C31_ResponseIsFinalTextOrError ==
    TaskReported =>
      ResponseFrom(AfterLastToolCall(tkChild.log)
                     \o (IF tkChild.raised THEN <<"Subagent error">> ELSE <<>>))

\* C31 witness: the subagent answered, called a tool and ended its last turn
\* with blank text; the response is the earlier answer, taken from the history
C31_Witness ==
    /\ tkpc = "result" /\ ~tkChild.raised
    /\ \E i \in 1..Len(tkChild.log) : tkChild.log[i].type = "tool_call"
    /\ IsBlankText(AfterLastToolCall(tkChild.log))
    /\ TaskResultOf.response = <<"text">>


\* ------------------------------------------------------------------ C32
\* C32: with an observer installed, _last_observed_message_index is at most
\* len(messages) and the messages before it are the ones of the current
\* list that the observer has received; no operation leaves the cursor
\* beyond the end of the list
C32_CursorWithinHistory ==
    hasObserver =>
      /\ lastObserved <= Len(messages)
      /\ \A i \in 1..Len(messages) :
           (i <= lastObserved) <=> (messages[i].mid \in Range(observed))


\* ------------------------------------------------------------------ C33
\* C33: a callback installed with set_approval_callback stays in effect
\* across switch_agent and reload_with_initial_messages: with auto_approve
\* off, the runner used by act consults the installed callback for a tool
\* whose permission is ASK
C33_CallbackSurvivesReload ==
    (~cbAuto /\ cbLast.installed # "none") => cbLast.consulted = cbLast.installed


\* ------------------------------------------------------------------ C34
\* C34: with auto_approve off, a tool whose configured permission is NEVER
\* is never invoked, whatever the allowlist/denylist check of its arguments
\* and the approval callback answer
C34_NeverPermissionNeverRuns ==
    (dcpc = "done" /\ ~dcIn.auto /\ dcIn.perm = "NEVER") =>
      dcOut.verdict # "EXECUTE"


\* ------------------------------------------------------------------ C35
\* the contents of the events of one type, concatenated in emission order
RECURSIVE EventText(_, _)
EventText(evs, type) ==
    IF evs = <<>> THEN <<>>
    ELSE (IF evs[1].type = type THEN evs[1].content ELSE <<>>)
           \o EventText(Tail(evs), type)

\* the ReasoningEvents of a completed stream carry the reasoning of its chunks
StreamedReasoningPreserved ==
    stpc = "done" => EventText(stEvents, "reasoning") = stAgg.reasoning

\* C35: in a completed streaming turn the AssistantEvents concatenate to the
\* content of all chunks (the content of the appended message) and the
\* ReasoningEvents to their reasoning, for any chunk sequence, whitespace-only
\* chunks included
C35_StreamedTextPreserved ==
    /\ StreamedReasoningPreserved
    /\ stpc = "done" => EventText(stEvents, "assistant") = stAgg.content


\* ------------------------------------------------------------------ C36
\* C36: the consumer of a generator wrapped by async_generator_retry has
\* received exactly the items of one complete run when the wrapper returns:
\* the items of a failed attempt are not delivered in addition to those of
\* the retried attempt
C36_ConsumerSeesOneRun ==
    grpc = "returned" => grOut = [i \in 1..grPos |-> i]


\* ------------------------------------------------------------------ C37
\* C37: compact() is atomic with respect to failure: when the summary call or
\* the token count raises, the history and stats.steps are as they were
\* immediately before compact() was called
C37_CompactFailureChangesNothing ==
    [][mtEnd' = "compact_failed" =>
         (mtMsgs' = mtMsgs /\ mtStats'.steps = mtStats.steps)]_vars


\* ------------------------------------------------------------------ C38
\* the step in which the LLM call of a turn raises and act ends
LLMCallFails == pc = "llm" /\ pc' = "idle" /\ lastEnd' = "exception"

\* every message of the history has been delivered to the observer
AllDelivered(msgs, obs) == \A i \in 1..Len(msgs) : msgs[i].mid \in Range(obs)

\* the observer's cursor counts delivered messages of the current list
CursorSound ==
    /\ lastObserved <= Len(messages)
    /\ \A i \in 1..lastObserved : messages[i].mid \in Range(observed)

\* no assistant message is appended for the failed turn and the session is
\* saved with the history as it is
LLMFailureAppendsNothing ==
    [][LLMCallFails => (messages' = messages /\ saved' = Mids(messages))]_vars

\* from a sound cursor, the failed act ends with every message delivered
LLMFailureFlushesFromSoundCursor ==
    [][(LLMCallFails /\ hasObserver /\ CursorSound)
         => AllDelivered(messages', observed')]_vars

\* C38: when the LLM call of a turn fails during act, no assistant message
\* is appended for that turn, and before act ends every message appended so
\* far (the user message included) has been delivered to the observer and
\* the session has been saved
C38_LLMFailureFlushesAndSaves ==
    /\ LLMFailureAppendsNothing
    /\ [][(LLMCallFails /\ hasObserver) => AllDelivered(messages', observed')]_vars


\* ------------------------------------------------------------------ C39
\* the turn limit has answered STOP in the last act that ended, and the
\* history has not been cleared since
TurnLimitReached == tlEnd = [kind |-> "stop", reason |-> tlMax]

\* stats.steps never decreases across act and compact calls
StepsNeverDecrease ==
    [][(tlSteps' < tlSteps) =>
         (tlpc \in {"idle", "ended"} /\ tlpc' = "idle" /\ tlSteps' = 0)]_vars

\* once the turn limit has answered STOP, an act answers the stop event of
\* the turn limit at its first run_before_turn and makes no LLM call
StoppedActsStayStopped ==
    [][(TurnLimitReached /\ tlpc = "before_turn" /\ tlpc' # "before_turn")
         => (tlpc' = "ended" /\ TurnLimitReached' /\ tlTurns' = tlTurns)]_vars

\* C39: stats.steps never decreases across act and compact calls, so the
\* turn limit is a budget of the session: once TurnLimitMiddleware has
\* answered STOP, every later act on the loop is stopped before its first
\* LLM call, until clear_history resets the stats
C39_TurnLimitIsSessionBudget == StepsNeverDecrease /\ StoppedActsStayStopped

\* C39 witness: under a limit of one the first act made its LLM turn and was
\* stopped by the turn limit; the second act has been stopped as well, with
\* no further LLM turn
C39_Witness ==
    /\ tlMax = 1 /\ tlActs = 2 /\ tlpc = "ended" /\ TurnLimitReached
    /\ tlTurns = 1 /\ tlSteps = 3

====
